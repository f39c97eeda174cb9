----------------------------- MODULE ExecShell -----------------------------
(***************************************************************************)
(* Running a shell command under a context: the four implementations of    *)
(* ExecShell, chosen by the variable impl:                                 *)
(*   "shellx"      shellx/cmd_nowin.go                                     *)
(*   "shellx_win"  shellx/cmd_win.go                                       *)
(*   "utils"       utils/sehllx_nowin.go                                   *)
(*   "utils_win"   utils/shellx_win.go                                     *)
(*                                                                         *)
(* The caller starts a worker goroutine that runs the command, and selects *)
(* between its result and ctx.Done().  The command is a shell that starts  *)
(* children in its process group; all of them hold the output pipe, so     *)
(* CombinedOutput and Wait return when all are gone.                       *)
(*                                                                         *)
(* The worker writes cmd.Process without synchronisation with the caller's *)
(* read of it: the caller may see nil although the process was started.    *)
(* In shellx_win the caller starts the process itself.                     *)
(***************************************************************************)
EXTENDS Naturals

CONSTANTS Impls,     \* the implementations in question
          Children   \* the processes the command may start

ASSUME ImplsAssumption ==
  Impls \subseteq {"shellx", "shellx_win", "utils", "utils_win"} /\ Impls # {}

VARIABLES
  impl,    \* the implementation that the caller uses, fixed
  ctx,     \* ctx.Done() is closed
  caller,  \* "idle", "start", "select", "await" (only shellx_win) or "returned"
  reply,   \* what the caller returned: "output", "error", "deadline", "panic"
  worker,  \* the goroutine: "none", "new", "wait", "send" or "done"
  chan,    \* results in the channel
  shell,   \* the shell: "none", "running", "dead" or "reaped"
  child,   \* every child: "none", "running" or "dead"
  known,   \* cmd.Process is set
  killed   \* history: the caller saw cmd.Process at the deadline and killed

shellVars == <<impl, ctx, caller, reply, worker, chan, shell, child, known, killed>>

ShellTypeOK ==
  /\ impl \in Impls
  /\ ctx \in BOOLEAN /\ known \in BOOLEAN /\ killed \in BOOLEAN
  /\ caller \in {"idle", "start", "select", "await", "returned"}
  /\ reply \in {"none", "output", "error", "deadline", "panic"}
  /\ worker \in {"none", "new", "wait", "send", "done"}
  /\ chan \in 0..1
  /\ shell \in {"none", "running", "dead", "reaped"}
  /\ child \in [Children -> {"none", "running", "dead"}]

ShellInit ==
  /\ impl = (CHOOSE x \in Impls : TRUE) /\ ctx = FALSE
  /\ caller = "idle" /\ reply = "none" /\ worker = "none" /\ chan = 0
  /\ shell = "none" /\ child = [k \in Children |-> "none"] /\ known = FALSE /\ killed = FALSE

Running == reply # "panic"   \* a nil dereference ends the program

\* No process of the command runs.
Gone == shell # "running" /\ \A k \in Children : child[k] # "running"

Windows == impl \in {"shellx_win", "utils_win"}

-----------------------------------------------------------------------------
(* The command and the context, which nobody but the kill controls. *)

ShellExits ==
  /\ shell = "running"
  /\ shell' = "dead"
  /\ UNCHANGED <<impl, ctx, caller, reply, worker, chan, child, known, killed>>

\* The shell or a running child starts another one.
StartsChild ==
  /\ shell = "running" \/ \E k \in Children : child[k] = "running"
  /\ \E k \in Children :
       child[k] = "none" /\ child' = [child EXCEPT ![k] = "running"]
  /\ UNCHANGED <<impl, ctx, caller, reply, worker, chan, shell, known, killed>>

ChildExits ==
  /\ \E k \in Children :
       child[k] = "running" /\ child' = [child EXCEPT ![k] = "dead"]
  /\ UNCHANGED <<impl, ctx, caller, reply, worker, chan, shell, known, killed>>

ContextDone ==
  /\ caller # "idle" /\ ~ctx
  /\ ctx' = TRUE
  /\ UNCHANGED <<impl, caller, reply, worker, chan, shell, child, known, killed>>

-----------------------------------------------------------------------------
(* The worker goroutine *)

\* The channel has room for a result that nobody receives.
Buffered == impl \in {"shellx", "shellx_win"}

\* CombinedOutput starts the process (shellx, utils, utils_win): the process
\* exists before cmd.Process is set.
Fork ==
  /\ worker = "new" /\ shell = "none"
  /\ shell' = "running"
  /\ UNCHANGED <<impl, ctx, caller, reply, worker, chan, child, known, killed>>

SetProcess ==
  /\ worker = "new" /\ shell # "none"
  /\ known' = TRUE
  /\ worker' = "wait"
  /\ UNCHANGED <<impl, ctx, caller, reply, chan, shell, child, killed>>

StartFails ==
  /\ worker = "new" /\ shell = "none"
  /\ worker' = "send"
  /\ UNCHANGED <<impl, ctx, caller, reply, chan, shell, child, known, killed>>

\* CombinedOutput (or Wait) returns: the shell is reaped and the pipe closed.
WaitReturns ==
  /\ worker = "wait"
  /\ shell = "dead" /\ Gone
  /\ shell' = "reaped"
  /\ worker' = "send"
  /\ UNCHANGED <<impl, ctx, caller, reply, chan, child, known, killed>>

\* Mutant of SendResult: the channel has no buffer.
SendResult_Unbuffered ==
  /\ worker = "send"
  /\ caller = "select"
  /\ chan' = 1
  /\ worker' = "done"
  /\ UNCHANGED <<impl, ctx, caller, reply, shell, child, known, killed>>

\* The result goes into the channel; without a buffer the send waits for the
\* receive.
SendResult ==
  /\ worker = "send"
  /\ Buffered
  /\ chan' = 1
  /\ worker' = "done"
  /\ UNCHANGED <<impl, ctx, caller, reply, shell, child, known, killed>>

-----------------------------------------------------------------------------
(* The caller *)

\* ExecShell is called, with a context that may be done already.
CallShell ==
  /\ caller = "idle" /\ caller' = "start"
  /\ impl' \in Impls /\ ctx' \in BOOLEAN
  /\ UNCHANGED <<reply, worker, chan, shell, child, known, killed>>

\* FindShell fails (shellx), the command is empty or does not start
\* (shellx_win): an error and no worker.
FailsEarly ==
  /\ caller = "start"
  /\ impl \in {"shellx", "shellx_win"}
  /\ caller' = "returned" /\ reply' = "error"
  /\ UNCHANGED <<impl, ctx, worker, chan, shell, child, known, killed>>

\* The worker is started and the caller selects.
StartWorker ==
  /\ caller = "start"
  /\ caller' = "select"
  /\ IF impl = "shellx_win"
     THEN shell' = "running" /\ known' = TRUE /\ worker' = "wait"
     ELSE worker' = "new" /\ UNCHANGED <<shell, known>>
  /\ UNCHANGED <<impl, ctx, reply, chan, child, killed>>

\* case result := <-resultChan, from the buffer or from the blocked worker.
Receive ==
  /\ caller = "select"
  /\ \/ chan = 1 /\ chan' = 0 /\ UNCHANGED worker
     \/ ~Buffered /\ worker = "send" /\ worker' = "done" /\ UNCHANGED chan
  /\ caller' = "returned" /\ reply' = "output"
  /\ UNCHANGED <<impl, ctx, shell, child, known, killed>>

Dead(s) == IF s = "running" THEN "dead" ELSE s

\* Mutant of Kill: the signal goes to the shell and not to its group.
Kill_ShellOnly ==
  /\ killed' = TRUE
  /\ shell' = Dead(shell)
  /\ UNCHANGED child

\* The whole tree is killed: SIGKILL to the process group, or taskkill /T,
\* which may fail; then Process.Kill still ends the shell.
Kill ==
  /\ killed' = TRUE
  /\ shell' = Dead(shell)
  /\ \/ child' = [k \in Children |-> Dead(child[k])]
     \/ Windows /\ UNCHANGED child

\* Where the caller goes after the kill: shellx_win waits for the worker.
AfterKill ==
  IF impl = "shellx_win"
  THEN caller' = "await" /\ UNCHANGED reply
  ELSE caller' = "returned" /\ reply' = "deadline"

\* Mutant of Deadline: the caller always waits for the worker after the kill.
Deadline_Await ==
  /\ caller = "select" /\ ctx
  /\ \/ known /\ Kill /\ caller' = "await" /\ UNCHANGED reply
     \/ /\ caller' = "await"
        /\ UNCHANGED <<reply, shell, child, killed>>
  /\ UNCHANGED <<impl, ctx, worker, chan, known>>

\* case <-ctx.Done(): the caller sees the process and kills it; or sees nil,
\* which shellx checks and the utils dereference.
Deadline ==
  /\ caller = "select" /\ ctx
  /\ \/ known /\ Kill /\ AfterKill
     \/ /\ impl = "shellx"
        /\ AfterKill
        /\ UNCHANGED <<shell, child, killed>>
     \/ /\ impl \in {"utils", "utils_win"}
        /\ caller' = "returned" /\ reply' = "panic"
        /\ UNCHANGED <<shell, child, killed>>
  /\ UNCHANGED <<impl, ctx, worker, chan, known>>

\* <-done in shellx_win.
Await ==
  /\ caller = "await"
  /\ chan = 1
  /\ chan' = 0
  /\ caller' = "returned" /\ reply' = "deadline"
  /\ UNCHANGED <<impl, ctx, worker, shell, child, known, killed>>

-----------------------------------------------------------------------------
WorkerStep == Fork \/ SetProcess \/ StartFails \/ WaitReturns \/ SendResult
CallerStep == FailsEarly \/ StartWorker \/ Receive \/ Deadline \/ Await
Environment == CallShell \/ ShellExits \/ StartsChild \/ ChildExits \/ ContextDone

ShellNext == Running /\ (WorkerStep \/ CallerStep \/ Environment)

\* Goroutines run.  Nothing is assumed of the command or of the context.
ShellFairness == WF_shellVars(Running /\ WorkerStep) /\ WF_shellVars(Running /\ CallerStep)

ShellSpec == ShellInit /\ [][ShellNext]_shellVars /\ ShellFairness

-----------------------------------------------------------------------------
(* Properties *)

\* When the caller saw the process at the deadline and the kill of the group
\* did not fail, the shell and its children are dead, and stay dead, when
\* ExecShell returns (cmd_nowin.go, sehllx_nowin.go).  When ExecShell of
\* shellx_win returns, the process was waited for: no zombie and no output
\* still being copied (the comment on <-done).
KillIsComplete ==
  caller = "returned" =>
    /\ ~Windows /\ killed => Gone
    /\ impl = "shellx_win" /\ reply # "error" => shell = "reaped"

\* ExecShell returns soon after the context is done, whatever the command
\* does; shellx_win, which waits for the process then, when nothing of the
\* command has survived the kill.
ReturnsAtDeadline ==
  ctx /\ (impl = "shellx_win" => shell # "none" /\ Gone) ~> caller = "returned"

\* The worker goroutine ends once the command is gone, although the caller may
\* have returned and receives nothing (the comment on resultChan); in the
\* utils, whose channel has no buffer, only when the caller receives.
WorkerEnds ==
  (worker # "none" /\ shell \in {"dead", "reaped"} /\ Gone)
    ~> \/ worker = "done"
       \/ ~Buffered /\ reply \in {"deadline", "panic"}

\* "On a timeout or cancellation it tries to kill the process group and all
\* its children": no command outlives the deadline (cmd_nowin.go:21).
NoOrphan == reply = "deadline" ~> Gone

=============================================================================
