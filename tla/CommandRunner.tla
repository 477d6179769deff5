--------------------------- MODULE CommandRunner ---------------------------
(***************************************************************************)
(* One run of a bounded command (platform/command/runner.go): the process, *)
(* the two goroutines that copy its output into limited buffers, the       *)
(* deadline, and what Run and then the agent's executor make of it all     *)
(* (agent/executor.go).                                                    *)
(*                                                                         *)
(* Output is counted in bytes; what the bytes are does not matter.  A      *)
(* buffer only ever appends, so its length tells which part of the output  *)
(* it holds.                                                               *)
(***************************************************************************)
EXTENDS Naturals

CONSTANTS
  Limit,      \* output limit of the runner, from effectiveOutputLimit
  MaxOutput,  \* bound on the bytes a command writes to one stream
  Children    \* whether the command may leave a child that keeps its output open

ASSUME RunnerAssumption ==
  /\ Limit \in Nat \ {0} /\ MaxOutput \in Nat
  /\ Children \in BOOLEAN

Streams == {"stdout", "stderr"}

VARIABLES
  process,    \* the command: "ready", "running", "succeeded", "failed", "killed"
  held,       \* a child of the command keeps the pipes open
  applied,    \* the command had its effect on the service
  late,       \* the deadline has passed
  cancelled,  \* the caller's context was cancelled before that
  written,    \* per stream, bytes the command wrote to the pipe
  read,       \* per stream, bytes handed to limitedBuffer.Write
  kept,       \* per stream, bytes in the buffer
  truncated,  \* per stream, the buffer's flag
  eof,        \* streams whose copying goroutine has ended
  waited,     \* what cmd.Run returned: "no", "nil" or "error"
  verdict     \* what Run returned

runnerVars == <<process, held, applied, late, cancelled, written, read, kept, truncated,
          eof, waited, verdict>>

Verdicts == {"ok", "timeout", "failed", "truncated", "not_allowed"}

RunnerTypeOK ==
  /\ process \in {"ready", "running", "succeeded", "failed", "killed"}
  /\ {held, applied, late, cancelled} \subseteq BOOLEAN
  /\ written \in [Streams -> 0 .. MaxOutput]
  /\ read \in [Streams -> 0 .. MaxOutput]
  /\ kept \in [Streams -> 0 .. Limit]
  /\ truncated \in [Streams -> BOOLEAN]
  /\ eof \subseteq Streams
  /\ waited \in {"no", "nil", "error"}
  /\ verdict \in Verdicts \cup {"none"}

RunnerInit ==
  /\ process = "ready"
  /\ held \in {FALSE, Children}
  /\ applied = FALSE /\ late = FALSE /\ cancelled = FALSE
  /\ written = [s \in Streams |-> 0]
  /\ read = [s \in Streams |-> 0]
  /\ kept = [s \in Streams |-> 0]
  /\ truncated = [s \in Streams |-> FALSE]
  /\ eof = {}
  /\ waited = "no"
  /\ verdict = "none"

output == <<written, read, kept, truncated, eof>>
clock  == <<late, cancelled>>

(* An executable that is not on the runner's list is not started.          *)
RefuseCommand ==
  /\ process = "ready" /\ verdict = "none" /\ waited = "no"
  /\ verdict' = "not_allowed"
  /\ UNCHANGED <<process, held, applied, waited, output, clock>>

(* cmd.Start fails, as it does for a context that is done already.         *)
CommandNotStarted ==
  /\ process = "ready" /\ verdict = "none" /\ waited = "no"
  /\ waited' = "error" /\ eof' = Streams /\ held' = FALSE
  /\ UNCHANGED <<process, applied, verdict, written, read, kept, truncated, clock>>

StartCommand ==
  /\ process = "ready" /\ verdict = "none" /\ waited = "no"
  /\ ~late /\ ~cancelled
  /\ process' = "running"
  /\ UNCHANGED <<held, applied, waited, verdict, output, clock>>

(* The command, or a child it left, writes n bytes.                        *)
CommandWrites(s, n) ==
  /\ process = "running" \/ (held /\ process # "ready")
  /\ written[s] + n <= MaxOutput
  /\ written' = [written EXCEPT ![s] = @ + n]
  /\ UNCHANGED <<process, held, applied, read, kept, truncated, eof, waited, verdict, clock>>

(* systemctl has done its work, perhaps before it goes on to write or fail. *)
TakesEffect ==
  /\ process = "running" /\ ~applied
  /\ applied' = TRUE
  /\ UNCHANGED <<process, held, waited, verdict, output, clock>>

(* A status of 0 is the command's word that it did what it was asked to.   *)
CommandExits ==
  /\ process = "running"
  /\ \E result \in {"succeeded", "failed"} :
       /\ result = "succeeded" => applied
       /\ process' = result
  /\ UNCHANGED <<held, applied, waited, verdict, output, clock>>

ChildExits ==
  /\ held /\ process \notin {"ready", "running"}
  /\ held' = FALSE
  /\ UNCHANGED <<process, applied, waited, verdict, output, clock>>

DeadlinePasses ==
  /\ ~late /\ ~cancelled
  /\ late' = TRUE
  /\ UNCHANGED <<process, held, applied, waited, verdict, cancelled, output>>

(* The caller goes away: a browser that closes, for a status request.      *)
CallerCancels ==
  /\ ~late /\ ~cancelled
  /\ cancelled' = TRUE
  /\ UNCHANGED <<process, held, applied, waited, verdict, late, output>>

(* Faulty variant: only the caller's context ends the command.             *)
KillWhenCancelled ==
  /\ process = "running" /\ cancelled
  /\ process' = "killed"
  /\ UNCHANGED <<held, applied, waited, verdict, output, clock>>

(* exec.CommandContext kills the process, and only it, once the context is *)
(* done.                                                                   *)
Kill ==
  /\ process = "running" /\ (late \/ cancelled)
  /\ process' = "killed"
  /\ UNCHANGED <<held, applied, waited, verdict, output, clock>>

(* limitedBuffer.Write, called by io.Copy with the n bytes it has read.    *)
Write(s, n) ==
  /\ s \notin eof /\ n > 0 /\ read[s] + n <= written[s]
  /\ read' = [read EXCEPT ![s] = @ + n]
  /\ LET remaining == Limit - kept[s] IN
     IF n > remaining
     THEN kept' = [kept EXCEPT ![s] = Limit] /\ truncated' = [truncated EXCEPT ![s] = TRUE]
     ELSE kept' = [kept EXCEPT ![s] = @ + n] /\ truncated' = truncated
  /\ UNCHANGED <<process, held, applied, written, eof, waited, verdict, clock>>

(* A pipe ends when the command and its children have closed it and all    *)
(* that was in it is read.                                                 *)
PipeEnds(s) ==
  /\ s \notin eof
  /\ process \notin {"ready", "running"} /\ ~held
  /\ read[s] = written[s]
  /\ eof' = eof \cup {s}
  /\ UNCHANGED <<process, held, applied, written, read, kept, truncated, waited, verdict, clock>>

(* Faulty variant: cmd.Run returns with the process and leaves the copying *)
(* to finish on its own.                                                   *)
WaitReturnsEarly ==
  /\ waited = "no" /\ process \notin {"ready", "running"}
  /\ waited' = IF process = "succeeded" THEN "nil" ELSE "error"
  /\ UNCHANGED <<process, held, applied, verdict, output, clock>>

(* cmd.Run returns when the process has ended and both copies have.        *)
WaitReturns ==
  /\ waited = "no" /\ process \notin {"ready", "running"} /\ eof = Streams
  /\ waited' = IF process = "succeeded" THEN "nil" ELSE "error"
  /\ UNCHANGED <<process, held, applied, verdict, output, clock>>

(* Run looks at the deadline first, then at the error, then at the output. *)
Return ==
  /\ waited # "no" /\ verdict = "none"
  /\ verdict' = IF late THEN "timeout"
                ELSE IF waited = "error" THEN "failed"
                ELSE IF \E s \in Streams : truncated[s] THEN "truncated"
                ELSE "ok"
  /\ UNCHANGED <<process, held, applied, waited, output, clock>>

Finished == verdict # "none" /\ UNCHANGED runnerVars

Chunks == 1 .. MaxOutput

RunnerNext ==
  \/ RefuseCommand \/ CommandNotStarted \/ StartCommand
  \/ \E s \in Streams, n \in Chunks : CommandWrites(s, n) \/ Write(s, n)
  \/ TakesEffect \/ CommandExits \/ ChildExits
  \/ DeadlinePasses \/ CallerCancels \/ Kill
  \/ \E s \in Streams : PipeEnds(s)
  \/ WaitReturns \/ Return \/ Finished

RunnerSpec == RunnerInit /\ [][RunnerNext]_runnerVars

(* Time passes, the kernel kills, and the goroutines run: Run's own and    *)
(* one that copies each stream.  Of the command itself nothing is expected. *)
RunStep == CommandNotStarted \/ StartCommand \/ WaitReturns \/ Return
TimePasses == DeadlinePasses \/ CallerCancels
Copies(s) == PipeEnds(s) \/ \E n \in Chunks : Write(s, n)

RunnerFairness ==
  /\ WF_runnerVars(RunStep) /\ WF_runnerVars(TimePasses) /\ WF_runnerVars(Kill)
  /\ \A s \in Streams : WF_runnerVars(Copies(s))

FairRunnerSpec == RunnerSpec /\ RunnerFairness

(* The agent's answer: commandFailureReason tells a timeout from all else. *)
Reason ==
  CASE verdict = "ok"      -> "ok"
    [] verdict = "timeout" -> "command_timeout"
    [] OTHER               -> "command_failed"

---------------------------------------------------------------------------
(* Properties.                                                             *)

(* However the output arrives in pieces, a buffer holds all of it up to    *)
(* the limit, and says it is truncated exactly when something is missing:  *)
(* output that fills the limit to the byte is whole.                       *)
CaptureIsExact ==
  \A s \in Streams :
    /\ kept[s] = IF read[s] > Limit THEN Limit ELSE read[s]
    /\ truncated[s] <=> read[s] > Limit

(* What Run reports as a success is one: the command said so and nothing   *)
(* it wrote is missing; then only is the service reported changed.         *)
SuccessIsComplete ==
  Reason = "ok" => /\ process = "succeeded" /\ applied
                   /\ \A s \in Streams : kept[s] = written[s]

(* A failure is one, or the output was too long; and what was cut off by   *)
(* the deadline is told apart from a failure, since it may have worked.    *)
FailureIsTold ==
  /\ verdict = "failed" => process # "succeeded"
  /\ verdict = "truncated" => process = "succeeded" /\ \E s \in Streams : written[s] > Limit
  /\ verdict # "none" /\ process = "killed" => verdict = "timeout" \/ cancelled

(* What is said of a command is so: what it wrote, and how it went.        *)
VerdictIsTrue == CaptureIsExact /\ SuccessIsComplete /\ FailureIsTold

(* Run returns, whatever the command does, unless a child keeps the pipes  *)
(* open: the deadline kills the command and not what it has started.       *)
RunReturns == <>(verdict # "none" \/ held)
=============================================================================
