-------------------------- MODULE ReliableReceiver --------------------------
(***************************************************************************)
(* The receiving program of mp2 (mp2/src/receiver_main.cpp): the loop of   *)
(* reliablyReceive() takes one packet at a time, stores it in `array`,     *)
(* answers with an ack, and ends at a packet with pack_id 0.               *)
(*                                                                         *)
(* Each action is one turn of the loop.  The ack it sends is a parameter,  *)
(* for the modules that compose the receiver with a network.               *)
(***************************************************************************)
EXTENDS Packets

VARIABLES
    rpc,            \* where reliablyReceive() is
    old_pid,
    array,          \* the keys of the map of stored packets
    written         \* the pack_ids handed to fwrite(), in order: the output file

receiverVars == <<rpc, old_pid, array, written>>

ReceiverTypeOK ==
    /\ rpc \in {"receiving", "closed"}
    /\ old_pid \in Nat
    /\ array \in SUBSET (Nat \ {FIN})
    /\ written \in Seq(Nat)

ReceiverInit ==
    /\ rpc = "receiving"
    /\ old_pid = 0
    /\ array = {}
    /\ written = <<>>

\* The packets that are in the output file.
WrittenIds == ToSet(written)

----------------------------------------------------------------------------
\* A FIN packet ends the loop; the file is closed.
ReceiveFin(pid) ==
    /\ rpc = "receiving"
    /\ pid = FIN
    /\ rpc' = "closed"
    /\ UNCHANGED <<old_pid, array, written>>

\* Mutant: any packet starts a run.
StartsRun_Any(pid) == TRUE

\* Only the packet after old_pid starts a run.
StartsRun(pid) == pid = old_pid + 1

\* Mutant: acknowledge the packet that came, as if the ones before it had come.
RepeatedAck_OwnPid(pid) == pid

\* The ack of a packet that starts no run.
RepeatedAck(pid) == old_pid

\* Any packet but the one after old_pid is stored and the old ack is repeated.
ReceiveOther(pid, ack) ==
    /\ rpc = "receiving"
    /\ pid # FIN
    /\ ~ StartsRun(pid)
    /\ array' = array \cup {pid}
    /\ ack = RepeatedAck(pid)
    /\ UNCHANGED <<rpc, old_pid, written>>

\* The loop over temid finds the end of the unbroken run of stored packets that
\* starts at pid.
IsRunEnd(stored, pid, last) ==
    /\ last \in stored
    /\ pid <= last
    /\ pid..last \subseteq stored
    /\ last + 1 \notin stored

\* The packet after old_pid: acknowledge the run of stored packets it starts and
\* write that run.  old_pid moves by one, not to the end of the run.
ReceiveHead(pid, ack) ==
    /\ rpc = "receiving"
    /\ pid # FIN
    /\ StartsRun(pid)
    /\ array' = array \cup {pid}
    /\ old_pid' = pid
    /\ IsRunEnd(array', pid, ack)
    /\ written' = written \o Interval(pid, ack)
    /\ UNCHANGED rpc

----------------------------------------------------------------------------
\* The loop that writes a run reads array[i] for packets that were stored only.
WrittenWasStored == WrittenIds \subseteq array

\* The receiver writes no packet before the one it follows, although it may
\* write some of them more than once.
NoGaps ==
    \A i \in 1..Len(written) :
        written[i] = 1 \/ \E j \in 1..(i - 1) : written[j] = written[i] - 1

\* The receiver's own invariant, whatever packets arrive.
ReceiverInv ==
    /\ ReceiverTypeOK
    /\ WrittenWasStored
    /\ NoGaps
    /\ 1..old_pid \subseteq WrittenIds

============================================================================
