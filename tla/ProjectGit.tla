----------------------------- MODULE ProjectGit -----------------------------
(***************************************************************************)
(* The git endpoints of the bridge server (api/git.ts).  A commit request  *)
(* runs one git command after another, and a status request as well; the   *)
(* commands of several requests interleave, and files change meanwhile.    *)
(* There is one index for all requests, so that a commit takes along what  *)
(* others have staged.                                                     *)
(*                                                                         *)
(* The content of a file is a version, and every edit makes a new one.     *)
(* Version 0 is a file that does not exist yet.  Files are not deleted,    *)
(* and nobody else runs git commands in the project.                       *)
(***************************************************************************)
EXTENDS Integers

CONSTANTS
  Files,
  Requests,  \* HTTP requests, each made once
  MaxEdits,  \* how often files change
  Nobody     \* has staged the file

ASSUME GitAssumption == MaxEdits \in Nat /\ Nobody \notin Requests

VARIABLES
  edits,    \* how many versions have been made
  work,     \* the version in the working tree
  index,    \* the version that is staged
  head,     \* the version in the last commit
  commits,  \* how many commits there are
  pushed,   \* how many of them the remote has
  pc,       \* the next step of a request, or its answer
  kind,     \* "commit", "push" or "status"
  wants,    \* the files that a commit is asked for
  todo,     \* those of them it has not staged yet
  listed,   \* the files that a status has listed so far
  base,     \* observed: the working tree when the request began
  dirty,    \* observed: the files that differed from the last commit then
  moved,    \* observed: files staged or committed since then
  stager    \* observed: the request that has staged the file last

repoVars == <<edits, work, index, head, commits, pushed, stager>>
requestVars == <<pc, kind, wants, todo, listed, base, dirty, moved>>
vars == <<repoVars, requestVars>>

Steps == {"idle", "add", "all", "commit", "push", "staged", "unstaged", "untracked"}

(* A commit that finds nothing staged fails like any other, with 500. *)
Answers == {"ok", "refused", "error", "nothing"}

TypeOK ==
  /\ edits \in Nat /\ commits \in Nat /\ pushed \in Nat
  /\ work \in [Files -> Nat] /\ index \in [Files -> Nat] /\ head \in [Files -> Nat]
  /\ pc \in [Requests -> Steps \cup Answers]
  /\ kind \in [Requests -> {"commit", "push", "status"}]
  /\ wants \in [Requests -> SUBSET Files] /\ todo \in [Requests -> SUBSET Files]
  /\ listed \in [Requests -> SUBSET Files]
  /\ base \in [Requests -> [Files -> Nat]]
  /\ dirty \in [Requests -> SUBSET Files] /\ moved \in [Requests -> SUBSET Files]
  /\ stager \in [Files -> Requests \cup {Nobody}]

Init ==
  /\ edits = 0 /\ commits = 0 /\ pushed = 0
  /\ work = [f \in Files |-> 0] /\ index = work /\ head = work
  /\ pc = [r \in Requests |-> "idle"]
  /\ kind = [r \in Requests |-> "status"]
  /\ wants = [r \in Requests |-> {}] /\ todo = wants /\ listed = wants
  /\ base = [r \in Requests |-> work]
  /\ dirty = wants /\ moved = wants
  /\ stager = [f \in Files |-> Nobody]

-----------------------------------------------------------------------------
Goto(r, step) == pc' = [pc EXCEPT ![r] = step]

Staged == {f \in Files : index[f] # head[f]}
Unstaged == {f \in Files : index[f] # 0 /\ work[f] # index[f]}
Untracked == {f \in Files : index[f] = 0 /\ work[f] # 0}

(* Files F are staged or committed. *)
Moves(F) == moved' = [r \in Requests |-> moved[r] \cup F]

FirstStep(k, F) ==
  CASE k = "commit" -> IF F = {} THEN "all" ELSE "add" [] k = "push" -> "push"
    [] k = "status" -> "staged"

Edit(f) ==
  /\ edits < MaxEdits
  /\ edits' = edits + 1
  /\ work' = [work EXCEPT ![f] = edits + 1]
  /\ UNCHANGED <<index, head, commits, pushed, stager, requestVars>>

(* A request finds its session.  A commit without a list is for all files. *)
Begin(r, k, F) ==
  /\ pc[r] = "idle"
  /\ Goto(r, FirstStep(k, F))
  /\ kind' = [kind EXCEPT ![r] = k]
  /\ wants' = [wants EXCEPT ![r] = IF k # "commit" THEN {} ELSE IF F = {} THEN Files ELSE F]
  /\ todo' = [todo EXCEPT ![r] = IF k # "commit" THEN {} ELSE F]
  /\ base' = [base EXCEPT ![r] = work]
  /\ dirty' = [dirty EXCEPT ![r] = Staged \cup Unstaged \cup Untracked]
  /\ moved' = [moved EXCEPT ![r] = {}]
  /\ UNCHANGED <<repoVars, listed>>

(* No session, or no commit message. *)
Refuse(r) ==
  /\ pc[r] = "idle"
  /\ Goto(r, "refused")
  /\ UNCHANGED <<repoVars, kind, wants, todo, listed, base, dirty, moved>>

Stages(r, F) ==
  /\ index' = [f \in Files |-> IF f \in F THEN work[f] ELSE index[f]]
  /\ stager' = [f \in Files |-> IF f \in F THEN r ELSE stager[f]]
  /\ Moves({f \in F : work[f] # index[f]})
  /\ UNCHANGED <<edits, work, head, commits, pushed, kind, wants, listed, base, dirty>>

(* Mutant: a failed git add is passed over. *)
Add_IgnoresFailure(r, f) ==
  /\ pc[r] = "add" /\ f \in todo[r]
  /\ \E F \in {{}, {f}} : Stages(r, F)
  /\ todo' = [todo EXCEPT ![r] = @ \ {f}]
  /\ UNCHANGED pc

(* git add <file>, for one file of the list after the other. *)
Add(r, f) ==
  /\ pc[r] = "add" /\ f \in todo[r] /\ work[f] # 0
  /\ Stages(r, {f})
  /\ todo' = [todo EXCEPT ![r] = @ \ {f}]
  /\ UNCHANGED pc

(* git add -A *)
AddAll(r) ==
  /\ pc[r] = "all"
  /\ Stages(r, Files)
  /\ Goto(r, "commit")
  /\ UNCHANGED todo

Added(r) ==
  /\ pc[r] = "add" /\ todo[r] = {}
  /\ Goto(r, "commit")
  /\ UNCHANGED <<repoVars, kind, wants, todo, listed, base, dirty, moved>>

(* Any git command may fail: the file is unknown, another command holds    *)
(* the lock of the index, a hook refuses, the remote is ahead.  What has   *)
(* been staged stays staged.                                               *)
CommandFails(r) ==
  /\ pc[r] \in Steps \ {"idle"}
  /\ Goto(r, "error")
  /\ UNCHANGED <<repoVars, kind, wants, todo, listed, base, dirty, moved>>

(* Mutant: the answer is given without a look at the outcome of git commit. *)
Commit_Unchecked(r) ==
  /\ pc[r] = "commit" /\ index # head
  /\ \/ head' = index /\ commits' = commits + 1 /\ Moves(Staged)
     \/ UNCHANGED <<head, commits, moved>>
  /\ Goto(r, "ok")
  /\ UNCHANGED <<edits, work, index, pushed, stager, kind, wants, todo, listed, base, dirty>>

(* git commit: all that is staged, by whomever. *)
Commit(r) ==
  /\ pc[r] = "commit" /\ index # head
  /\ head' = index
  /\ commits' = commits + 1
  /\ Moves(Staged)
  /\ Goto(r, "ok")
  /\ UNCHANGED <<edits, work, index, pushed, stager, kind, wants, todo, listed, base, dirty>>

CommitNothing(r) ==
  /\ pc[r] = "commit" /\ index = head
  /\ Goto(r, "nothing")
  /\ UNCHANGED <<repoVars, kind, wants, todo, listed, base, dirty, moved>>

Push(r) ==
  /\ pc[r] = "push"
  /\ pushed' = commits
  /\ Goto(r, "ok")
  /\ UNCHANGED <<edits, work, index, head, commits, stager, kind, wants, todo, listed, base,
                 dirty, moved>>

-----------------------------------------------------------------------------
(* A status reads three lists, one command for each. *)
Lists(r, from, F, to) ==
  /\ pc[r] = from
  /\ Goto(r, to)
  /\ listed' = [listed EXCEPT ![r] = @ \cup F]
  /\ UNCHANGED <<repoVars, kind, wants, todo, base, dirty, moved>>

ListStaged(r) == Lists(r, "staged", Staged, "unstaged")

(* Mutant: the untracked files are left out. *)
ListUnstaged_Last(r) == Lists(r, "unstaged", Unstaged, "ok")

ListUnstaged(r) == Lists(r, "unstaged", Unstaged, "untracked")
ListUntracked(r) == Lists(r, "untracked", Untracked, "ok")

RequestStep(r) ==
  \/ Refuse(r) \/ AddAll(r) \/ Added(r) \/ CommandFails(r) \/ Commit(r) \/ CommitNothing(r)
  \/ Push(r) \/ ListStaged(r) \/ ListUnstaged(r) \/ ListUntracked(r)

Next ==
  \/ \E f \in Files : Edit(f)
  \/ \E r \in Requests :
       \/ \E k \in {"commit", "push", "status"}, F \in SUBSET Files : Begin(r, k, F)
       \/ \E f \in Files : Add(r, f)
       \/ RequestStep(r)

Spec == Init /\ [][Next]_vars

-----------------------------------------------------------------------------
(* When a commit request is answered with success, and also when it fails  *)
(* because nothing is staged, all the files it was asked for are in the    *)
(* last commit, in the state they had when it began or a later one,        *)
(* whoever has committed them.                                             *)
AskedIsCommitted ==
  \A r \in Requests : kind[r] = "commit" /\ pc[r] \in {"ok", "nothing"} =>
    \A f \in wants[r] : base[r][f] <= head[f]

(* What is staged and not committed was staged by a request that is still  *)
(* under way or has failed: a commit that was answered leaves nothing of   *)
(* its own for the commits of others.                                      *)
LeftByTheUnfinished ==
  \A f \in Staged :
    stager[f] \in Requests /\ kind[stager[f]] = "commit" /\ pc[stager[f]] \in {"add", "commit", "error"}

(* A file that differed from the last commit when a status request began   *)
(* is listed, unless it was staged or committed between its commands.      *)
StatusIsComplete ==
  \A r \in Requests : kind[r] = "status" /\ pc[r] = "ok" => dirty[r] \ moved[r] \subseteq listed[r]

(* No commit takes a file back to a version older than the last commit's,  *)
(* though it was staged long before, by another request, and the last      *)
(* commit has been replaced since; and the remote has no commit that the   *)
(* project lacks.                                                          *)
NeverBack ==
  [][/\ \A f \in Files : head[f] <= head'[f] /\ index[f] <= index'[f]
     /\ pushed <= pushed' /\ pushed' <= commits']_vars

-----------------------------------------------------------------------------
(* The inductive invariant: versions only grow from the last commit over   *)
(* the index to the working tree.                                          *)
VersionInv ==
  /\ \A f \in Files : head[f] <= index[f] /\ index[f] <= work[f] /\ work[f] <= edits
  /\ \A r \in Requests, f \in Files : base[r][f] <= work[f]

CommitInv ==
  \A r \in Requests :
    /\ pc[r] \in {"add", "all", "commit"} => kind[r] = "commit"
    /\ pc[r] \in {"staged", "unstaged", "untracked"} => kind[r] = "status"
    /\ pc[r] = "push" => kind[r] = "push"
    /\ pc[r] \in {"all", "commit"} => todo[r] = {}
    /\ pc[r] \in {"add", "commit"} => \A f \in wants[r] \ todo[r] : base[r][f] <= index[f]

StatusInv ==
  \A r \in Requests : \A f \in dirty[r] \ moved[r] :
    /\ pc[r] = "staged" => index[f] # head[f] \/ index[f] # work[f]
    /\ pc[r] = "unstaged" => f \in listed[r] \/ index[f] # work[f]
    /\ pc[r] = "untracked" => f \in listed[r] \/ (index[f] = 0 /\ work[f] # 0)

IndInv ==
  /\ TypeOK /\ VersionInv /\ CommitInv /\ StatusInv
  /\ AskedIsCommitted /\ LeftByTheUnfinished /\ StatusIsComplete
=============================================================================
