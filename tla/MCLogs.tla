------------------------------- MODULE MCLogs -------------------------------
(* Readers that ask for the last entries, for one stream, and for a time,  *)
(* of a task that starts for the first time, and of one whose log has been *)
(* rotated as often as files are kept.                                     *)
EXTENDS Logs, LogTool

Ask(stream, tail, all, since) ==
    [stream |-> stream, tail |-> tail, all |-> all, since |-> since]

MCAsks == {Ask("all", -1, TRUE, FALSE), Ask("all", 2, TRUE, FALSE),
           Ask("o", 1, TRUE, FALSE), Ask("o", -1, FALSE, FALSE),
           Ask("all", -1, FALSE, TRUE)}

(* The tool is called while the log is at rest. *)
MCNumbers ==
    {n \in [negative : BOOLEAN, digits : SeqOf({0, 1, 2, 6}, 3), fraction : 0..2,
            exponent : -7..6] :
        /\ n.digits # <<>> /\ n.fraction < Len(n.digits)
        /\ n.exponent \in -2..2 \/ (n.exponent \in {-7, 6} /\ n.fraction = 0)}

Whole(digits) == [negative |-> FALSE, digits |-> digits, fraction |-> 0, exponent |-> 0]

MCBeside == {Whole(<<2>>), Whole(<<1, 2>>)}

MCMinInt == -128
MCMessages == SeqOf(1..4, 3) \cup {<<4, 4, 4, 4, 4, 4>>, <<1, 3, 2, 1, 2, 3, 1, 3>>}
MCEntryLists == SeqOf([prefix : {2}, data : {<<>>, <<1>>, <<3, 1>>, <<2, 2, 2>>}], 3)

Past(time, stream, k) == [time |-> time, stream |-> stream, run |-> k]

MCInit ==
    \/ Init /\ tool = Start
    \/ Init /\ ToolInit
    \/ /\ tool = Start
       /\ file = <<<<Past(-3, "o", 1)>>, <<Past(-2, "e", 2)>>, <<Past(0, "o", 3)>>>>
       /\ path = [n \in 0..MaxLogFiles |-> 3 - n]
       /\ open = 3 /\ sup = "ended"
       /\ start = [time |-> -1, run |-> 3] /\ run = 3 /\ clock = 0
       /\ stamped = [w \in Writers |-> None] /\ attempt = 1 /\ shift = 0
       /\ exit = FALSE /\ dropped = {}
       /\ reader = [r \in Readers |-> NoRead]

MCNext ==
    \/ tool = Start /\ Next /\ UNCHANGED tool
    \/ file = <<>> /\ (\A r \in Readers : reader[r] = NoRead) /\ ToolNext /\ UNCHANGED vars

MCSpec == MCInit /\ [][MCNext]_<<vars, tool>> /\ \A r \in Readers : WF_vars(Follows(r))
=============================================================================
