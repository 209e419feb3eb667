------------------------------ MODULE Worktrees ------------------------------
(***************************************************************************)
(* The worktrees of one repository (rails/worktree.py) as several `rails'  *)
(* commands make and remove them at once.                                  *)
(*                                                                         *)
(* All tasks have the same slug, so the short id alone tells two names     *)
(* apart, and it may be drawn twice.  Git itself is external: adding and   *)
(* removing may fail for reasons of its own.                               *)
(***************************************************************************)
EXTENDS TaskSet

CONSTANTS ShortIds, NoId

ASSUME IdsAssumption == NoId \notin ShortIds

VARIABLES
  checkouts,      \* whose checkout is under .worktrees/<slug>-<id>
  branches,       \* whose branch is rails/<slug>-<id>
  wt              \* the Worktree each task was given

worktreeVars == <<checkouts, branches, wt>>

WorktreesInit ==
  /\ checkouts = [i \in ShortIds |-> NoTask]
  /\ branches = [i \in ShortIds |-> NoTask]
  /\ wt = [t \in Tasks |-> NoId]

\* git worktree add -b refuses a branch that exists, and a path that does.
Free(i) == checkouts[i] = NoTask /\ branches[i] = NoTask

Added(t, i) ==
  checkouts' = [checkouts EXCEPT ![i] = t] /\ branches' = [branches EXCEPT ![i] = t]

create(t, i) == Free(i) /\ Added(t, i) /\ wt' = [wt EXCEPT ![t] = i]

\* Mutant: create() is called inside the try of worktree_for.
AfterFailedAdd_CleansUp(t, i) ==
  /\ checkouts' = [checkouts EXCEPT ![i] = NoTask]
  /\ branches' = [branches EXCEPT ![i] = NoTask]

\* create() raises before the try of worktree_for: nothing cleans up.
AfterFailedAdd(t, i) == UNCHANGED <<checkouts, branches>>

\* The name is taken; or the checkout cannot be written, and git has made the branch by
\* then; or the symlink to node_modules cannot be made.
CreateRaises(t, i) ==
  /\ \/ ~Free(i) /\ AfterFailedAdd(t, i)
     \/ Free(i) /\ branches' = [branches EXCEPT ![i] = t] /\ UNCHANGED checkouts
     \/ Free(i) /\ Added(t, i)
  /\ UNCHANGED wt

\* Mutant: the branch goes and the checkout stays.
Removes_BranchOnly(t, delete_branch) ==
  /\ branches' = IF delete_branch THEN [branches EXCEPT ![wt[t]] = NoTask] ELSE branches
  /\ UNCHANGED <<checkouts, wt>>

\* cleanup() in two outcomes.  Removing fails on a dirty tree without force and for
\* reasons of git's own with it, and then the branch stays as well.
Removes(t, delete_branch) ==
  /\ checkouts' = [checkouts EXCEPT ![wt[t]] = NoTask]
  /\ branches' = IF delete_branch THEN [branches EXCEPT ![wt[t]] = NoTask] ELSE branches
  /\ UNCHANGED wt

CleanupRaises == UNCHANGED worktreeVars

WorktreesOK ==
  /\ checkouts \in [ShortIds -> Tasks \cup {NoTask}]
  /\ branches \in [ShortIds -> Tasks \cup {NoTask}]
  /\ wt \in [Tasks -> ShortIds \cup {NoId}]
  /\ \A i \in ShortIds : checkouts[i] # NoTask => branches[i] = checkouts[i]

=============================================================================
