--------------------------- MODULE AlarmLifeCycle ---------------------------
(***************************************************************************)
(* What the alarm engine promises: the alarms of a definition follow one   *)
(* another, the one before is closed when the next is opened, an alarm     *)
(* that is closed stays as it is, and a mail is about an alarm that exists *)
(* and is sent at most once.  Nothing is said about threads,               *)
(* transactions, memory or failures.                                       *)
(***************************************************************************)
EXTENDS Naturals, Sequences

CONSTANTS Def, Time

VARIABLES
    alarms,  \* the alarms of a definition, in the order they were opened
    mails    \* the alarms of a definition a mail was sent for

vars == <<alarms, mails>>

Mailed(d) == {mails[d][i] : i \in 1 .. Len(mails[d])}

Init == /\ alarms = [d \in Def |-> <<>>]
        /\ mails = [d \in Def |-> <<>>]

(* closed = 0 is an alarm that is open.                                    *)
OpenNow(d) == alarms[d] # <<>> /\ alarms[d][Len(alarms[d])].closed = 0

(* Some alarms are opened and some closed, at the same time.               *)
Change ==
    \E opened \in SUBSET Def, closed \in SUBSET Def, s \in Time :
        /\ \A d \in opened : ~ OpenNow(d)
        /\ \A d \in closed : OpenNow(d)
        /\ alarms' = [d \in Def |->
               CASE d \in opened -> Append(alarms[d], [opened |-> s, closed |-> 0])
                 [] d \in closed -> [alarms[d] EXCEPT ![Len(alarms[d])].closed = s]
                 [] OTHER -> alarms[d]]
        /\ UNCHANGED mails

Mail ==
    \E d \in Def : \E i \in (1 .. Len(alarms[d])) \ Mailed(d) :
        /\ mails' = [mails EXCEPT ![d] = Append(@, i)]
        /\ UNCHANGED alarms

Next == Change \/ Mail

Spec == Init /\ [][Next]_vars
=============================================================================
