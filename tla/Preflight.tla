----------------------------- MODULE Preflight -----------------------------
(***************************************************************************)
(* The check of the target before the first run of a Runner                *)
(* (src/transport/preflight.go, beginRun of src/runner/plugin.go): the     *)
(* first of the runs that begin makes it, under its own context and a      *)
(* timeout; the others wait for sync.Once, and all share its error.        *)
(*                                                                         *)
(* The target is external and does not change: what claude --version and   *)
(* claude auth status do there, and whether it may take longer than the    *)
(* timeout.  A version is its three numbers, or Unparsable.                *)
(*                                                                         *)
(* An operator introduced as a "faulty variant" is no part of Next: it is  *)
(* the definition after it with a plausible bug.                           *)
(***************************************************************************)
EXTENDS Naturals

CONSTANTS
  Runs,       \* the runs of the Runner
  Targets,    \* [binary : {"absent", "fails", "ok"}, version, slow : BOOLEAN,
              \*  auth : {"in", "out", "unknown"}, env : BOOLEAN]
  Unparsable, \* what --version printed holds no version
  MinCLIVersion \* the oldest supported version

VARIABLES
  target,
  once,       \* preflightOnce: "new", the command at work, or "done"
  first,      \* the run that makes the check
  checked,    \* PreflightInfo.AuthChecked
  failure,    \* preflightErr: "nil" or what it wraps
  run,        \* run -> "new", "waits", "started" or "refused"
  cancelled   \* the runs whose context has ended

vars == <<target, once, first, checked, failure, run, cancelled>>

Nobody == "nobody"

Init ==
  /\ target \in Targets
  /\ once = "new" /\ first = Nobody /\ checked = FALSE /\ failure = "nil"
  /\ run = [r \in Runs |-> "new"] /\ cancelled = {}

Finish(error) == once' = "done" /\ failure' = error

-----------------------------------------------------------------------------
\* Faulty variant: each number compared by itself.
LowerAnywhere(a, b) == \E i \in 1..3 : a[i] < b[i]

\* CompareVersions(a, b) < 0.
Lower(a, b) == \E i \in 1..3 : a[i] < b[i] /\ \A j \in 1 .. i - 1 : a[j] = b[j]

\* beginRun: sync.Once lets one run check, and the rest wait for it.
Begin(r) ==
  /\ run[r] = "new"
  /\ run' = [run EXCEPT ![r] = "waits"]
  /\ IF once = "new" THEN once' = "version" /\ first' = r ELSE UNCHANGED <<once, first>>
  /\ UNCHANGED <<target, checked, failure, cancelled>>

\* The command may be cut off: the checking run's context ended, or the timeout came.
\* One that ends at the same time may as well count.
Cut == first \in cancelled \/ target.slow

\* claude --version: the binary, then the version; then credentials from the
\* environment, without which the CLI is asked.
Version ==
  /\ once = "version"
  /\ \/ target.binary = "absent" /\ Finish("ErrClaudeNotFound") /\ UNCHANGED checked
     \/ target.binary = "fails" /\ Finish("--version failed") /\ UNCHANGED checked
     \/ /\ target.binary = "ok" /\ target.version = Unparsable
        /\ Finish("cannot parse version") /\ UNCHANGED checked
     \/ /\ target.binary = "ok" /\ target.version # Unparsable
        /\ Lower(target.version, MinCLIVersion)
        /\ Finish("ErrCLITooOld") /\ UNCHANGED checked
     \/ /\ target.binary = "ok" /\ target.version # Unparsable
        /\ ~Lower(target.version, MinCLIVersion)
        /\ IF target.env THEN checked' = TRUE /\ Finish("nil")
           ELSE once' = "auth" /\ UNCHANGED <<checked, failure>>
     \/ Cut /\ Finish("context") /\ UNCHANGED checked
  /\ UNCHANGED <<target, first, run, cancelled>>

\* Faulty variant: a CLI without auth status counts as logged in.
AuthCheckedUnlessOut == target.auth # "out"

\* checkAuth, the CLI's answer: it was read, and says logged in.
AuthChecked == target.auth = "in"

\* claude auth status: what was read of the answer counts even if the command was cut
\* off; nothing readable is no failure, unless the context has ended.
Auth ==
  /\ once = "auth"
  /\ \/ /\ target.auth = "unknown" => first \notin cancelled
        /\ checked' = AuthChecked
        /\ Finish(IF target.auth = "out" THEN "ErrNotAuthenticated" ELSE "nil")
     \/ Cut /\ Finish("context") /\ UNCHANGED checked
  /\ UNCHANGED <<target, first, run, cancelled>>

\* Faulty variant: only the run that checked hears of the failure.
RefusesFirst(r) == failure # "nil" /\ r = first

\* The shared error refuses every run.
Refuses(r) == failure # "nil"

\* Once.Do returns to a run that waits, whatever its context.
Go(r) ==
  /\ run[r] = "waits" /\ once = "done"
  /\ run' = [run EXCEPT ![r] = IF Refuses(r) THEN "refused" ELSE "started"]
  /\ UNCHANGED <<target, once, first, checked, failure, cancelled>>

Cancel(r) ==
  /\ r \notin cancelled
  /\ cancelled' = cancelled \cup {r}
  /\ UNCHANGED <<target, once, first, checked, failure, run>>

Next == \/ Version \/ Auth
        \/ \E r \in Runs : Begin(r) \/ Go(r) \/ Cancel(r)

Spec == Init /\ [][Next]_vars

-----------------------------------------------------------------------------
(* Properties *)

AtLeast(v, min) ==
  \/ v[1] > min[1]
  \/ v[1] = min[1] /\ v[2] > min[2]
  \/ v[1] = min[1] /\ v[2] = min[2] /\ v[3] >= min[3]

OldEnough ==
  /\ target.binary = "ok" /\ target.version # Unparsable
  /\ AtLeast(target.version, MinCLIVersion)
LoggedOut == target.auth = "out" /\ ~target.env

\* A run is paid for on a verified target only, and never on one another run was
\* refused on; what is refused for a named reason has it; credentials are said to be
\* verified only when they were; the rest is refused for a context that ended, be it
\* another run's, or a target that does not answer (Preflight, checkAuth, beginRun).
OnlyVerifiedTargetsRun ==
  /\ \A r \in Runs :
       /\ run[r] = "started" => OldEnough /\ ~LoggedOut
       /\ run[r] = "refused" =>
            CASE failure = "ErrClaudeNotFound" -> target.binary = "absent"
              [] failure = "ErrCLITooOld" ->
                   target.binary = "ok" /\ ~AtLeast(target.version, MinCLIVersion)
              [] failure = "ErrNotAuthenticated" -> OldEnough /\ LoggedOut
              [] failure = "context" -> target.slow \/ first \in cancelled
              [] OTHER -> target.binary = "fails" \/ target.version = Unparsable
  /\ checked => target.env \/ target.auth = "in"
=============================================================================
