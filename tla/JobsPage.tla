------------------------------ MODULE JobsPage ------------------------------
(***************************************************************************)
(* The jobs page of the operator's browser: the polling of the list, the   *)
(* decision of a job, and what the page shows meanwhile (usePolling and    *)
(* requestJobDecision in web/src/App.tsx, web/src/api.ts).                 *)
(*                                                                         *)
(* Each answer is a snapshot the server takes at some time between asking  *)
(* and landing, and nothing orders the answers: a poll that outlives its   *)
(* interval runs beside the next one.  A row is the number of changes the  *)
(* job has seen.                                                           *)
(***************************************************************************)
EXTENDS Naturals

CONSTANTS
  Job, Other,   \* the job that is decided, and another
  Polls,        \* polls that may be under way at once
  MaxChanges,   \* bound on the changes of the two, together
  MaxPageFaults     \* bound on requests that fail, and on visits to the page

ASSUME PageAssumption ==
  /\ Job # Other /\ Polls \cap {"refetch", "decision"} = {}
  /\ MaxChanges \in Nat /\ MaxPageFaults \in Nat

Jobs     == {Job, Other}
ListRequests == Polls \cup {"refetch"}

VARIABLES
  truth,       \* per job, the server's row
  open,        \* the jobs page is the view
  state,       \* per request for the list: "none", "sent", "answered" or "failed"
  answer,      \* per request, the rows the server answered
  overlapped,  \* history: requests, and "decision", under way while another landed
  decision,    \* requestJobDecision: "none", "sent", "decided", "failed"
  decided,     \* the row it was answered
  clicked,     \* history: the rows shown when it was asked for
  shown,       \* the rows the page shows
  error,       \* jobsError is shown
  pageFaults

pageVars ==
  <<truth, open, state, answer, overlapped, decision, decided, clicked, shown, error,
    pageFaults>>

Rows == [Jobs -> 0 .. MaxChanges]
Old  == [j \in Jobs |-> 0]
UnderWay == {q \in ListRequests : state[q] # "none"}
              \cup (IF decision # "none" THEN {"decision"} ELSE {})

PageInit ==
  /\ truth = Old /\ shown = Old /\ clicked = Old
  /\ open = FALSE
  /\ state = [q \in ListRequests |-> "none"]
  /\ answer = [q \in ListRequests |-> Old]
  /\ overlapped = {}
  /\ decision = "none" /\ decided = 0
  /\ error = FALSE
  /\ pageFaults = 0

server == truth
Changes == truth[Job] + truth[Other]
page   == <<open, shown, error>>
choice == <<decision, decided, clicked>>

(* Operators elsewhere and the worker change a job.                        *)
JobChanges(j) ==
  /\ Changes < MaxChanges
  /\ truth' = [truth EXCEPT ![j] = @ + 1]
  /\ UNCHANGED <<page, state, answer, overlapped, choice, pageFaults>>

Sends(q) == state' = [state EXCEPT ![q] = "sent"]

(* The effect of usePolling: one poll at once, then one each interval.     *)
OpenPage(q) ==
  /\ ~open /\ q \in Polls /\ state[q] = "none" /\ pageFaults < MaxPageFaults
  /\ pageFaults' = pageFaults + 1
  /\ open' = TRUE
  /\ Sends(q)
  /\ UNCHANGED <<server, shown, error, answer, overlapped, choice>>

(* Faulty variant: the next poll is due only after a good answer.          *)
PollWhileGood(q) ==
  /\ open /\ q \in Polls /\ state[q] = "none" /\ ~error
  /\ Sends(q)
  /\ UNCHANGED <<server, page, answer, overlapped, choice, pageFaults>>

Poll(q) ==
  /\ open /\ q \in Polls /\ state[q] = "none"
  /\ Sends(q)
  /\ UNCHANGED <<server, page, answer, overlapped, choice, pageFaults>>

(* Faulty variant: the interval is cleared and nothing aborted.            *)
LeavePageOnly ==
  /\ open
  /\ open' = FALSE
  /\ UNCHANGED <<state, answer, overlapped, server, shown, error, choice, pageFaults>>

(* The effect's cleanup aborts its polls.                                  *)
LeavePage ==
  /\ open
  /\ open' = FALSE
  /\ state' = [q \in ListRequests |-> IF q \in Polls THEN "none" ELSE state[q]]
  /\ answer' = [q \in ListRequests |-> IF q \in Polls THEN Old ELSE answer[q]]
  /\ overlapped' = overlapped \ Polls
  /\ UNCHANGED <<server, shown, error, choice, pageFaults>>

ServerAnswers(q) ==
  /\ state[q] = "sent"
  /\ state' = [state EXCEPT ![q] = "answered"]
  /\ answer' = [answer EXCEPT ![q] = truth]
  /\ UNCHANGED <<server, page, overlapped, choice, pageFaults>>

RequestFails(q) ==
  /\ state[q] = "sent" /\ pageFaults < MaxPageFaults
  /\ pageFaults' = pageFaults + 1
  /\ state' = [state EXCEPT ![q] = "failed"]
  /\ UNCHANGED <<server, page, answer, overlapped, choice>>

Forgets(q) ==
  /\ state' = [state EXCEPT ![q] = "none"]
  /\ answer' = [answer EXCEPT ![q] = Old]

(* An answer replaces the list and clears the error.                       *)
AnswerLands(q) ==
  /\ state[q] = "answered"
  /\ shown' = answer[q] /\ error' = FALSE
  /\ Forgets(q)
  /\ overlapped' = UnderWay \ {q}
  /\ UNCHANGED <<server, open, choice, pageFaults>>

FailureLands(q) ==
  /\ state[q] = "failed"
  /\ error' = TRUE
  /\ Forgets(q)
  /\ overlapped' = overlapped \ {q}
  /\ UNCHANGED <<server, open, shown, choice, pageFaults>>

(* The operator approves or rejects.                                       *)
Decide ==
  /\ open /\ decision = "none" /\ state["refetch"] = "none"
  /\ decision' = "sent" /\ clicked' = shown
  /\ UNCHANGED <<server, page, state, answer, overlapped, decided, pageFaults>>

(* The server decides, or refuses.                                         *)
ServerDecides ==
  /\ decision = "sent"
  /\ \/ /\ Changes < MaxChanges
        /\ truth' = [truth EXCEPT ![Job] = @ + 1]
        /\ decision' = "decided" /\ decided' = truth'[Job]
     \/ decision' = "failed" /\ UNCHANGED <<truth, decided>>
  /\ UNCHANGED <<page, state, answer, overlapped, clicked, pageFaults>>

(* Faulty variant: the row is replaced in the list of the click.           *)
DecisionLandsOnClicked ==
  /\ decision = "decided"
  /\ shown' = [clicked EXCEPT ![Job] = decided]
  /\ Sends("refetch")
  /\ overlapped' = UnderWay \ {"decision"}
  /\ decision' = "none" /\ decided' = 0 /\ clicked' = Old
  /\ UNCHANGED <<server, open, error, answer, pageFaults>>

(* replaceJob on the rows of the moment, then fetchJobs without a signal:  *)
(* leaving the page does not abort it.                                     *)
DecisionLands ==
  /\ decision = "decided"
  /\ shown' = [shown EXCEPT ![Job] = decided]
  /\ Sends("refetch")
  /\ overlapped' = UnderWay \ {"decision"}
  /\ decision' = "none" /\ decided' = 0 /\ clicked' = Old
  /\ UNCHANGED <<server, open, error, answer, pageFaults>>

DecisionFails ==
  /\ decision = "failed"
  /\ error' = TRUE
  /\ decision' = "none" /\ clicked' = Old
  /\ overlapped' = overlapped \ {"decision"}
  /\ UNCHANGED <<server, open, shown, state, answer, decided, pageFaults>>

PageNext ==
  \/ \E j \in Jobs : JobChanges(j)
  \/ \E q \in Polls : OpenPage(q) \/ Poll(q)
  \/ LeavePage
  \/ \E q \in ListRequests :
       ServerAnswers(q) \/ RequestFails(q) \/ AnswerLands(q) \/ FailureLands(q)
  \/ Decide \/ ServerDecides \/ DecisionLands \/ DecisionFails

PageSpec == PageInit /\ [][PageNext]_pageVars

PageTypeOK ==
  /\ {truth, shown, clicked} \subseteq Rows
  /\ open \in BOOLEAN /\ error \in BOOLEAN
  /\ state \in [ListRequests -> {"none", "sent", "answered", "failed"}]
  /\ answer \in [ListRequests -> Rows]
  /\ overlapped \subseteq ListRequests \cup {"decision"}
  /\ decision \in {"none", "sent", "decided", "failed"}
  /\ decided \in 0 .. MaxChanges
  /\ pageFaults \in 0 .. MaxPageFaults

(* The browser's timers and the network: intervals pass, and what was sent *)
(* is answered or fails.                                                   *)
PollDue == \E q \in Polls : Poll(q)
Settles(q) == ServerAnswers(q) \/ RequestFails(q) \/ AnswerLands(q) \/ FailureLands(q)
Continues == ServerDecides \/ DecisionLands \/ DecisionFails

FairPageSpec ==
  /\ PageSpec
  /\ WF_pageVars(PollDue) /\ WF_pageVars(Continues)
  /\ \A q \in ListRequests : WF_pageVars(Settles(q))

---------------------------------------------------------------------------
(* A row the page shows never goes back to an earlier state of its job,    *)
(* unless the answer that lands was under way while another one landed: a  *)
(* list that outlived its interval or met a decision, or a decision that   *)
(* met a list.  And a decision takes back no row but that of its own job.  *)
ListLands ==
  \E q \in overlapped \cap ListRequests : state[q] = "answered" /\ state'[q] = "none"
DecidedLands == decision = "decided" /\ decision' = "none"

GoesBackOnlyByOverlap ==
  [][\A j \in Jobs : shown'[j] < shown[j] =>
       \/ ListLands
       \/ j = Job /\ "decision" \in overlapped /\ DecidedLands]_pageVars

(* Nothing a page asked for changes what is shown after it was left: only  *)
(* the list that follows a decision does.                                  *)
LeftIsLeft ==
  [][~open /\ shown' # shown =>
        decision # decision' \/ state["refetch"] # state'["refetch"]]_pageVars

(* A page that stays open comes to show the jobs as they are, whatever     *)
(* answers were late, failed or overtaken before.                          *)
CatchesUp == <>[]open => <>[](shown = truth)
=============================================================================
