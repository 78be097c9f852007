----------------------------- MODULE Worktrees -----------------------------
(***************************************************************************)
(* The git worktrees of a fleet's tasks (src/workspace/workspace.go, used  *)
(* by runTask of src/fleet/fleet.go): a task gets a checkout and a branch  *)
(* named after the first eight bytes of its ID, and has both removed when  *)
(* it is through, the branch under a name rebuilt from the checkout's.     *)
(* Every git command runs under the context of Fleet.Run: once that is     *)
(* cancelled none is started, and the one at work is killed.               *)
(*                                                                         *)
(* git is external: a command takes effect at its end, as a whole or, if   *)
(* it is killed, in part.  The same batch may be run again.  A branch is   *)
(* the path of its name below temp/, a slug the path wt-<slug>.            *)
(*                                                                         *)
(* An operator introduced as a "faulty variant" is no part of Next: it is  *)
(* the definition after it with a plausible bug.                           *)
(***************************************************************************)
EXTENDS Naturals, Sequences, SequencesExt

CONSTANTS
  Tasks,    \* the IDs of the batch
  Slugs,    \* their first eight bytes, as paths
  Invalid,  \* the slugs git takes no branch name from
  Kept,     \* branches of the repository's own, below temp/
  MaxRuns   \* bound: runs of the batch

VARIABLES
  slug,       \* a task's slug
  pc,         \* where runTask is for a task
  trees,      \* the slugs with a worktree
  branches,   \* the branches there are
  owner,      \* history: the task that made a worktree
  cancelled,  \* the context is done
  clean,      \* history: no run was cancelled so far
  batch       \* number of the run

vars == <<slug, pc, trees, branches, owner, cancelled, clean, batch>>

Nobody == "nobody"
Over == {"finished", "refused"}

Init ==
  /\ slug \in [Tasks -> Slugs]
  /\ pc = [t \in Tasks |-> "queued"]
  /\ trees = {} /\ branches = Kept /\ owner = [s \in Slugs |-> Nobody]
  /\ cancelled = FALSE /\ clean = TRUE /\ batch = 1

Goto(t, place) == pc' = [pc EXCEPT ![t] = place]

\* exec.CommandContext: the command starts, or the context has ended before.
RunGit(t, from, running, unstarted) ==
  /\ pc[t] = from
  /\ Goto(t, IF cancelled THEN unstarted ELSE running)
  /\ UNCHANGED <<slug, trees, branches, owner, cancelled, clean, batch>>

-----------------------------------------------------------------------------
(* CreateWorktree *)

Create(t) == RunGit(t, "queued", "adding", "refused")

\* Faulty variant: the removal is deferred before the error is looked at.
RefusedLate == "remove"

\* Where a task goes on whose worktree could not be made.
Refused == "refused"

\* No branch is made beside one of the same name, or of a name within its own.
Clash(b, c) == b = c \/ IsStrictPrefix(b, c) \/ IsStrictPrefix(c, b)

Free(s) == s \notin Invalid /\ \A b \in branches : ~Clash(b, s)

\* git worktree add <dir> -b <branch>
Added(t) ==
  /\ pc[t] = "adding"
  /\ IF Free(slug[t])
     THEN /\ trees' = trees \cup {slug[t]} /\ branches' = branches \cup {slug[t]}
          /\ owner' = [owner EXCEPT ![slug[t]] = t]
          /\ Goto(t, "running")
     ELSE Goto(t, Refused) /\ UNCHANGED <<trees, branches, owner>>
  /\ UNCHANGED <<slug, cancelled, clean, batch>>

\* Killed in the middle, it may leave the branch, and the directory.
AddKilled(t) ==
  /\ pc[t] = "adding" /\ cancelled
  /\ \/ UNCHANGED <<trees, branches, owner>>
     \/ /\ Free(slug[t]) /\ branches' = branches \cup {slug[t]}
        /\ \/ UNCHANGED <<trees, owner>>
           \/ trees' = trees \cup {slug[t]} /\ owner' = [owner EXCEPT ![slug[t]] = t]
  /\ Goto(t, Refused)
  /\ UNCHANGED <<slug, cancelled, clean, batch>>

\* The agent run in the worktree, whatever it gives.
RunEnds(t) ==
  /\ pc[t] = "running"
  /\ Goto(t, "remove")
  /\ UNCHANGED <<slug, trees, branches, owner, cancelled, clean, batch>>

-----------------------------------------------------------------------------
(* RemoveWorktree: neither command's error is looked at *)

RemoveTree(t) == RunGit(t, "remove", "removing", "delete")

Gone(s) == trees' = trees \ {s} /\ owner' = [owner EXCEPT ![s] = Nobody]

Removed(t) ==
  /\ pc[t] = "removing"
  /\ \/ Gone(slug[t])
     \/ cancelled /\ UNCHANGED <<trees, owner>>   \* killed
  /\ Goto(t, "delete")
  /\ UNCHANGED <<slug, branches, cancelled, clean, batch>>

Delete(t) == RunGit(t, "delete", "deleting", "finished")

\* "temp/" + filepath.Base(worktreeDir): of a path of several names only the last.
Rebuilt(s) == <<Last(s)>>

\* git branch -D refuses a branch that is checked out somewhere.
Deleted(t) ==
  /\ pc[t] = "deleting"
  /\ LET name == Rebuilt(slug[t])
     IN  \/ name \notin trees /\ branches' = branches \ {name}
         \/ (name \in trees \/ cancelled) /\ UNCHANGED branches
  /\ Goto(t, "finished")
  /\ UNCHANGED <<slug, trees, owner, cancelled, clean, batch>>

-----------------------------------------------------------------------------
Cancel ==
  /\ ~cancelled
  /\ cancelled' = TRUE /\ clean' = FALSE
  /\ UNCHANGED <<slug, pc, trees, branches, owner, batch>>

\* The caller runs the batch again, with a context of its own.
RunAgain ==
  /\ \A t \in Tasks : pc[t] \in Over
  /\ batch < MaxRuns
  /\ batch' = batch + 1 /\ cancelled' = FALSE
  /\ pc' = [t \in Tasks |-> "queued"]
  /\ UNCHANGED <<slug, trees, branches, owner, clean>>

Next ==
  \/ Cancel \/ RunAgain
  \/ \E t \in Tasks :
       \/ Create(t) \/ Added(t) \/ AddKilled(t) \/ RunEnds(t)
       \/ RemoveTree(t) \/ Removed(t) \/ Delete(t) \/ Deleted(t)

Spec == Init /\ [][Next]_vars

-----------------------------------------------------------------------------
(* Properties *)

\* A slug with "/" in it: RemoveWorktree takes another branch for its own.
Nested(s) == Len(s) > 1

\* What may stand in a task's way that nobody has cancelled: its name, another
\* task's, one of the repository's, or what its own earlier run left.
InTheWay(t) ==
  \/ slug[t] \in Invalid
  \/ \E u \in Tasks \ {t} : Clash(slug[u], slug[t])
  \/ \E b \in Kept : Clash(b, slug[t])
  \/ Nested(slug[t]) /\ batch > 1

\* A worktree is one task's as long as the task runs in it (runTask,
\* CreateWorktree, RemoveWorktree): nobody removes or takes the checkout of a
\* task at work, with whatever task it shares its slug or rebuilds its name.  What
\* is left without a cancellation are the branches of nested slugs; a branch of
\* the repository's own goes only if a nested slug ends in its name; and a task
\* is refused only for what may stand in its way.
WorktreesAreKept ==
  /\ \A t \in Tasks : pc[t] \in {"running", "remove"} =>
       slug[t] \in trees \cap branches /\ owner[slug[t]] = t
  /\ trees \subseteq branches
  /\ clean /\ (\A t \in Tasks : pc[t] \in Over) =>
       /\ trees = {}
       /\ \A b \in branches \ Kept : \E t \in Tasks : b = slug[t] /\ Nested(b)
  /\ \A b \in Kept \ branches : \E t \in Tasks : Nested(slug[t]) /\ b = Rebuilt(slug[t])
  /\ clean => \A t \in Tasks : pc[t] = "refused" => InTheWay(t)
=============================================================================
