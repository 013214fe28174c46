----------------------- MODULE TranscriptionRequests -----------------------
(***************************************************************************)
(* What the app promises about a request to transcribe a meeting, whatever *)
(* cancels, failures, deletions and restarts it meets: one is tried at a   *)
(* time, each for a bounded number of tries that only a new request starts *)
(* over; one that is said to be done left a transcript; and a transcript   *)
(* goes only with its meeting, which takes the request along.  Scheduler   *)
(* implements it.                                                          *)
(***************************************************************************)
EXTENDS Naturals

CONSTANTS Meetings, MaxTries

VARIABLES
    request,  \* what has become of each meeting's request
    tries,    \* the tries it has behind it
    text      \* the meetings that have a transcript

Open == {"queued", "running"}
Fates == {"none", "done", "failed"} \cup Open

TypeOK == /\ request \in [Meetings -> Fates]
          /\ tries \in [Meetings -> 0..MaxTries]
          /\ text \subseteq Meetings

DoneIsTranscribed == \A m \in Meetings : request[m] = "done" => m \in text

Turn(m, now, count) ==
    /\ request' = [request EXCEPT ![m] = now]
    /\ tries' = [tries EXCEPT ![m] = count]

Init == /\ request = [m \in Meetings |-> "none"]
        /\ tries = [m \in Meetings |-> 0]
        /\ text \in SUBSET Meetings

Ask(m) == request[m] \notin Open /\ Turn(m, "queued", 0) /\ UNCHANGED text

Begin(m) == /\ request[m] = "queued"
            /\ \A k \in Meetings : request[k] # "running"
            /\ Turn(m, "running", tries[m]) /\ UNCHANGED text

\* The process ended in the middle of a try.
Resume(m) == request[m] = "running" /\ Turn(m, "queued", tries[m]) /\ UNCHANGED text

Transcribe(m) == text' = text \cup {m} /\ UNCHANGED <<request, tries>>

Serve(m) == request[m] \in Open /\ m \in text /\ Turn(m, "done", tries[m]) /\ UNCHANGED text

\* A try has failed.  A cancel and a new request may have come while it ran:
\* the new one is charged with it, and with the tries before it.
TryAgain(m) == /\ request[m] \in Open
               /\ \E n \in (tries[m] + 1)..(MaxTries - 1) : Turn(m, "queued", n)
               /\ UNCHANGED text

GiveUp(m) == /\ request[m] \in Open
             /\ \E n \in (tries[m] + 1)..MaxTries : Turn(m, "failed", n)
             /\ UNCHANGED text

TakeBack(m) == request[m] \in Open \cup {"failed"} /\ Turn(m, "none", 0) /\ UNCHANGED text

Erase(m) == text' = text \ {m} /\ Turn(m, "none", 0)

Next == \E m \in Meetings :
            \/ Ask(m) \/ Begin(m) \/ Resume(m) \/ Transcribe(m) \/ Serve(m)
            \/ TryAgain(m) \/ GiveUp(m) \/ TakeBack(m) \/ Erase(m)

Spec == Init /\ [][Next]_<<request, tries, text>>
=============================================================================
