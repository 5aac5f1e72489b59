-------------------------- MODULE ProjectGit_proofs --------------------------
(***************************************************************************)
(* Proofs about the git endpoints, for any number of files, requests and   *)
(* edits.  The argument: the versions of a file only grow, and the last    *)
(* commit is never ahead of the index, nor the index of the working tree;  *)
(* so what a commit request has staged stays committed or staged, and what *)
(* a status has not listed yet is still to be listed.                      *)
(***************************************************************************)
EXTENDS ProjectGit, TLAPS

(* The steps of a request that change nothing but where it stands, and the *)
(* three lists of a status.                                                *)
Turns(r) == Refuse(r) \/ Added(r) \/ CommandFails(r) \/ CommitNothing(r)
Listing(r) == ListStaged(r) \/ ListUnstaged(r) \/ ListUntracked(r)

-----------------------------------------------------------------------------
LEMMA InitTypes == Init => TypeOK
BY DEF Init, TypeOK, Steps, Answers

(* Types. *)
LEMMA StepTypes == ASSUME TypeOK, Next PROVE TypeOK'
<1>1. ASSUME NEW f \in Files, Edit(f) PROVE TypeOK'
  BY <1>1 DEF Edit, requestVars, TypeOK, Steps, Answers
<1>2. ASSUME NEW r \in Requests, NEW k \in {"commit", "push", "status"}, NEW F \in
            SUBSET Files, Begin(r, k, F)
     PROVE TypeOK'
  BY <1>2
     DEF Begin, FirstStep, Goto, repoVars, Staged, Unstaged, Untracked, TypeOK, Steps,
         Answers
<1>3. ASSUME NEW r \in Requests, NEW f \in Files, Add(r, f) PROVE TypeOK'
  BY <1>3 DEF Add, Stages, Moves, TypeOK, Steps, Answers
<1>4. ASSUME NEW r \in Requests, AddAll(r) PROVE TypeOK'
  BY <1>4 DEF AddAll, Stages, Moves, Goto, TypeOK, Steps, Answers
<1>5. ASSUME NEW r \in Requests, Turns(r) PROVE TypeOK'
  BY <1>5
     DEF Turns, Refuse, Added, CommandFails, CommitNothing, Goto, repoVars, TypeOK,
         Steps, Answers
<1>6. ASSUME NEW r \in Requests, Commit(r) PROVE TypeOK'
  BY <1>6 DEF Commit, Staged, Moves, Goto, TypeOK, Steps, Answers
<1>7. ASSUME NEW r \in Requests, Push(r) PROVE TypeOK'
  BY <1>7 DEF Push, Goto, TypeOK, Steps, Answers
<1>8. ASSUME NEW r \in Requests, Listing(r) PROVE TypeOK'
  <2>1. Staged \subseteq Files /\ Unstaged \subseteq Files /\ Untracked \subseteq Files
    BY DEF Staged, Unstaged, Untracked
  <2>2. ASSUME NEW F \in SUBSET Files, NEW from \in Steps, NEW to \in Steps \cup Answers,
               Lists(r, from, F, to)
        PROVE  TypeOK'
    BY <2>2 DEF Lists, Goto, repoVars, TypeOK, Steps, Answers
  <2> QED  BY <1>8, <2>1, <2>2 DEF Listing, ListStaged, ListUnstaged, ListUntracked, Steps, Answers
<1> QED
  BY <1>1, <1>2, <1>3, <1>4, <1>5, <1>6, <1>7, <1>8 DEF Next, RequestStep, Turns, Listing

(* The versions only grow from the last commit to the working tree. *)
LEMMA StepVersions == ASSUME TypeOK, VersionInv, Next PROVE VersionInv'
<1>1. ASSUME NEW f \in Files, Edit(f) PROVE VersionInv'
  BY <1>1 DEF Edit, requestVars, TypeOK, VersionInv
<1>2. ASSUME NEW r \in Requests, NEW k \in {"commit", "push", "status"}, NEW F \in
            SUBSET Files, Begin(r, k, F)
     PROVE VersionInv'
  BY <1>2
     DEF Begin, FirstStep, Goto, repoVars, Staged, Unstaged, Untracked, TypeOK,
         VersionInv
<1>3. ASSUME NEW r \in Requests, NEW f \in Files, Add(r, f) PROVE VersionInv'
  BY <1>3 DEF Add, Stages, Moves, TypeOK, VersionInv
<1>4. ASSUME NEW r \in Requests, AddAll(r) PROVE VersionInv'
  BY <1>4 DEF AddAll, Stages, Moves, Goto, TypeOK, VersionInv
<1>5. ASSUME NEW r \in Requests, Turns(r) PROVE VersionInv'
  BY <1>5
     DEF Turns, Refuse, Added, CommandFails, CommitNothing, Goto, repoVars, TypeOK,
         VersionInv
<1>6. ASSUME NEW r \in Requests, Commit(r) PROVE VersionInv'
  BY <1>6 DEF Commit, Staged, Moves, Goto, TypeOK, VersionInv
<1>7. ASSUME NEW r \in Requests, Push(r) PROVE VersionInv'
  BY <1>7 DEF Push, Goto, TypeOK, VersionInv
<1>8. ASSUME NEW r \in Requests, Listing(r) PROVE VersionInv'
  BY <1>8
     DEF Listing, ListStaged, ListUnstaged, ListUntracked, Lists, Goto, repoVars,
         TypeOK, VersionInv
<1> QED
  BY <1>1, <1>2, <1>3, <1>4, <1>5, <1>6, <1>7, <1>8 DEF Next, RequestStep, Turns, Listing

(* What a commit has gone through is staged. *)
LEMMA StepCommits == ASSUME TypeOK, VersionInv, CommitInv, Next PROVE CommitInv'
<1>1. ASSUME NEW f \in Files, Edit(f) PROVE CommitInv'
  BY <1>1 DEF Edit, requestVars, TypeOK, VersionInv, CommitInv, Steps, Answers
<1>2. ASSUME NEW r \in Requests, NEW k \in {"commit", "push", "status"}, NEW F \in
            SUBSET Files, Begin(r, k, F)
     PROVE CommitInv'
  BY <1>2
     DEF Begin, FirstStep, Goto, repoVars, Staged, Unstaged, Untracked, TypeOK,
         VersionInv, CommitInv, Steps, Answers
<1>3. ASSUME NEW r \in Requests, NEW f \in Files, Add(r, f) PROVE CommitInv'
  BY <1>3 DEF Add, Stages, Moves, TypeOK, VersionInv, CommitInv, Steps, Answers
<1>4. ASSUME NEW r \in Requests, AddAll(r) PROVE CommitInv'
  <2>1. /\ pc' = [pc EXCEPT ![r] = "commit"] /\ pc[r] = "all"
        /\ (\A f \in Files : index'[f] = work[f]) /\ todo' = todo
        /\ kind' = kind /\ wants' = wants /\ base' = base
    BY <1>4 DEF AddAll, Stages, Moves, Goto
  <2>2. \A q \in Requests : \A f \in wants[q] : base[q][f] <= index'[f]
    BY <2>1 DEF TypeOK, VersionInv
  <2> QED  BY <2>1, <2>2 DEF CommitInv, TypeOK
<1>5. ASSUME NEW r \in Requests, Turns(r) PROVE CommitInv'
  BY <1>5
     DEF Turns, Refuse, Added, CommandFails, CommitNothing, Goto, repoVars, TypeOK,
         VersionInv, CommitInv, Steps, Answers
<1>6. ASSUME NEW r \in Requests, Commit(r) PROVE CommitInv'
  BY <1>6 DEF Commit, Staged, Moves, Goto, TypeOK, VersionInv, CommitInv, Steps, Answers
<1>7. ASSUME NEW r \in Requests, Push(r) PROVE CommitInv'
  BY <1>7 DEF Push, Goto, TypeOK, VersionInv, CommitInv, Steps, Answers
<1>8. ASSUME NEW r \in Requests, Listing(r) PROVE CommitInv'
  BY <1>8
     DEF Listing, ListStaged, ListUnstaged, ListUntracked, Lists, Goto, repoVars,
         TypeOK, VersionInv, CommitInv, Steps, Answers
<1> QED
  BY <1>1, <1>2, <1>3, <1>4, <1>5, <1>6, <1>7, <1>8 DEF Next, RequestStep, Turns, Listing

(* What was asked for is committed. *)
LEMMA StepAsked ==
  ASSUME TypeOK, VersionInv, CommitInv, AskedIsCommitted, Next
  PROVE  AskedIsCommitted'
<1>1. ASSUME NEW f \in Files, Edit(f) PROVE AskedIsCommitted'
  BY <1>1
     DEF Edit, requestVars, TypeOK, VersionInv, CommitInv, AskedIsCommitted, Steps,
         Answers
<1>2. ASSUME NEW r \in Requests, NEW k \in {"commit", "push", "status"}, NEW F \in
            SUBSET Files, Begin(r, k, F)
     PROVE AskedIsCommitted'
  BY <1>2
     DEF Begin, FirstStep, Goto, repoVars, Staged, Unstaged, Untracked, TypeOK,
         VersionInv, CommitInv, AskedIsCommitted, Steps, Answers
<1>3. ASSUME NEW r \in Requests, NEW f \in Files, Add(r, f) PROVE AskedIsCommitted'
  BY <1>3
     DEF Add, Stages, Moves, TypeOK, VersionInv, CommitInv, AskedIsCommitted, Steps,
         Answers
<1>4. ASSUME NEW r \in Requests, AddAll(r) PROVE AskedIsCommitted'
  BY <1>4
     DEF AddAll, Stages, Moves, Goto, TypeOK, VersionInv, CommitInv, AskedIsCommitted,
         Steps, Answers
<1>5. ASSUME NEW r \in Requests, Turns(r) PROVE AskedIsCommitted'
  BY <1>5
     DEF Turns, Refuse, Added, CommandFails, CommitNothing, Goto, repoVars, TypeOK,
         VersionInv, CommitInv, AskedIsCommitted, Steps, Answers
<1>6. ASSUME NEW r \in Requests, Commit(r) PROVE AskedIsCommitted'
  BY <1>6
     DEF Commit, Staged, Moves, Goto, TypeOK, VersionInv, CommitInv, AskedIsCommitted,
         Steps, Answers
<1>7. ASSUME NEW r \in Requests, Push(r) PROVE AskedIsCommitted'
  BY <1>7 DEF Push, Goto, TypeOK, VersionInv, CommitInv, AskedIsCommitted, Steps, Answers
<1>8. ASSUME NEW r \in Requests, Listing(r) PROVE AskedIsCommitted'
  BY <1>8
     DEF Listing, ListStaged, ListUnstaged, ListUntracked, Lists, Goto, repoVars,
         TypeOK, VersionInv, CommitInv, AskedIsCommitted, Steps, Answers
<1> QED
  BY <1>1, <1>2, <1>3, <1>4, <1>5, <1>6, <1>7, <1>8 DEF Next, RequestStep, Turns, Listing

(* What is staged belongs to a request that is not done. *)
LEMMA StepLeft ==
  ASSUME TypeOK, CommitInv, LeftByTheUnfinished, Next
  PROVE  LeftByTheUnfinished'
<1>1. ASSUME NEW f \in Files, Edit(f) PROVE LeftByTheUnfinished'
  BY <1>1
     DEF Edit, requestVars, TypeOK, CommitInv, LeftByTheUnfinished, Staged, Steps,
         Answers
<1>2. ASSUME NEW r \in Requests, NEW k \in {"commit", "push", "status"}, NEW F \in
            SUBSET Files, Begin(r, k, F)
     PROVE LeftByTheUnfinished'
  BY <1>2
     DEF Begin, FirstStep, Goto, repoVars, Staged, Unstaged, Untracked, TypeOK,
         CommitInv, LeftByTheUnfinished, Staged, Steps, Answers
<1>3. ASSUME NEW r \in Requests, NEW f \in Files, Add(r, f) PROVE LeftByTheUnfinished'
  BY <1>3
     DEF Add, Stages, Moves, TypeOK, CommitInv, LeftByTheUnfinished, Staged, Steps,
         Answers
<1>4. ASSUME NEW r \in Requests, AddAll(r) PROVE LeftByTheUnfinished'
  BY <1>4
     DEF AddAll, Stages, Moves, Goto, TypeOK, CommitInv, LeftByTheUnfinished, Staged,
         Steps, Answers
<1>5. ASSUME NEW r \in Requests, Turns(r) PROVE LeftByTheUnfinished'
  <2>1. CASE CommitNothing(r)
    <3>1. Staged' = {}
      BY <2>1 DEF CommitNothing, repoVars, Staged
    <3> QED  BY <3>1 DEF LeftByTheUnfinished
  <2>2. CASE Refuse(r) \/ Added(r) \/ CommandFails(r)
    <3>1. Staged' = Staged /\ stager' = stager /\ kind' = kind
      BY <2>2 DEF Refuse, Added, CommandFails, repoVars, Staged
    <3>2. \A q \in Requests : pc[q] \in {"add", "commit", "error"} =>
            pc'[q] \in {"add", "commit", "error"}
      BY <2>2 DEF Refuse, Added, CommandFails, Goto, TypeOK
    <3>3. \A f \in Staged' : stager[f] \in Requests
      BY <3>1 DEF LeftByTheUnfinished
    <3> QED  BY <3>1, <3>2, <3>3 DEF LeftByTheUnfinished
  <2> QED  BY <1>5, <2>1, <2>2 DEF Turns
<1>6. ASSUME NEW r \in Requests, Commit(r) PROVE LeftByTheUnfinished'
  BY <1>6
     DEF Commit, Staged, Moves, Goto, TypeOK, CommitInv, LeftByTheUnfinished, Staged,
         Steps, Answers
<1>7. ASSUME NEW r \in Requests, Push(r) PROVE LeftByTheUnfinished'
  BY <1>7 DEF Push, Goto, TypeOK, CommitInv, LeftByTheUnfinished, Staged, Steps, Answers
<1>8. ASSUME NEW r \in Requests, Listing(r) PROVE LeftByTheUnfinished'
  BY <1>8
     DEF Listing, ListStaged, ListUnstaged, ListUntracked, Lists, Goto, repoVars,
         TypeOK, CommitInv, LeftByTheUnfinished, Staged, Steps, Answers
<1> QED
  BY <1>1, <1>2, <1>3, <1>4, <1>5, <1>6, <1>7, <1>8 DEF Next, RequestStep, Turns, Listing

(* What a status has still to list. *)
LEMMA StepStatus == ASSUME TypeOK, VersionInv, CommitInv, StatusInv, Next PROVE StatusInv'
<1>1. ASSUME NEW f \in Files, Edit(f) PROVE StatusInv'
  BY <1>1
     DEF Edit, requestVars, TypeOK, VersionInv, CommitInv, StatusInv, Staged, Unstaged,
         Untracked, Steps, Answers
<1>2. ASSUME NEW r \in Requests, NEW k \in {"commit", "push", "status"}, NEW F \in
            SUBSET Files, Begin(r, k, F)
     PROVE StatusInv'
  BY <1>2
     DEF Begin, FirstStep, Goto, repoVars, Staged, Unstaged, Untracked, TypeOK,
         VersionInv, CommitInv, StatusInv, Staged, Unstaged, Untracked, Steps, Answers
<1>3. ASSUME NEW r \in Requests, NEW f \in Files, Add(r, f) PROVE StatusInv'
  BY <1>3
     DEF Add, Stages, Moves, TypeOK, VersionInv, CommitInv, StatusInv, Staged, Unstaged,
         Untracked, Steps, Answers
<1>4. ASSUME NEW r \in Requests, AddAll(r) PROVE StatusInv'
  BY <1>4
     DEF AddAll, Stages, Moves, Goto, TypeOK, VersionInv, CommitInv, StatusInv, Staged,
         Unstaged, Untracked, Steps, Answers
<1>5. ASSUME NEW r \in Requests, Turns(r) PROVE StatusInv'
  BY <1>5
     DEF Turns, Refuse, Added, CommandFails, CommitNothing, Goto, repoVars, TypeOK,
         VersionInv, CommitInv, StatusInv, Staged, Unstaged, Untracked, Steps, Answers
<1>6. ASSUME NEW r \in Requests, Commit(r) PROVE StatusInv'
  BY <1>6
     DEF Commit, Staged, Moves, Goto, TypeOK, VersionInv, CommitInv, StatusInv, Staged,
         Unstaged, Untracked, Steps, Answers
<1>7. ASSUME NEW r \in Requests, Push(r) PROVE StatusInv'
  BY <1>7
     DEF Push, Goto, TypeOK, VersionInv, CommitInv, StatusInv, Staged, Unstaged,
         Untracked, Steps, Answers
<1>8. ASSUME NEW r \in Requests, Listing(r) PROVE StatusInv'
  BY <1>8
     DEF Listing, ListStaged, ListUnstaged, ListUntracked, Lists, Goto, repoVars,
         TypeOK, VersionInv, CommitInv, StatusInv, Staged, Unstaged, Untracked, Steps,
         Answers
<1> QED
  BY <1>1, <1>2, <1>3, <1>4, <1>5, <1>6, <1>7, <1>8 DEF Next, RequestStep, Turns, Listing

(* What a status has listed. *)
LEMMA StepComplete ==
  ASSUME TypeOK, CommitInv, StatusInv, StatusIsComplete, Next
  PROVE  StatusIsComplete'
<1>1. ASSUME NEW f \in Files, Edit(f) PROVE StatusIsComplete'
  BY <1>1
     DEF Edit, requestVars, TypeOK, CommitInv, StatusInv, StatusIsComplete, Untracked,
         Steps, Answers
<1>2. ASSUME NEW r \in Requests, NEW k \in {"commit", "push", "status"}, NEW F \in
            SUBSET Files, Begin(r, k, F)
     PROVE StatusIsComplete'
  BY <1>2
     DEF Begin, FirstStep, Goto, repoVars, Staged, Unstaged, Untracked, TypeOK,
         CommitInv, StatusInv, StatusIsComplete, Untracked, Steps, Answers
<1>3. ASSUME NEW r \in Requests, NEW f \in Files, Add(r, f) PROVE StatusIsComplete'
  BY <1>3
     DEF Add, Stages, Moves, TypeOK, CommitInv, StatusInv, StatusIsComplete, Untracked,
         Steps, Answers
<1>4. ASSUME NEW r \in Requests, AddAll(r) PROVE StatusIsComplete'
  BY <1>4
     DEF AddAll, Stages, Moves, Goto, TypeOK, CommitInv, StatusInv, StatusIsComplete,
         Untracked, Steps, Answers
<1>5. ASSUME NEW r \in Requests, Turns(r) PROVE StatusIsComplete'
  BY <1>5
     DEF Turns, Refuse, Added, CommandFails, CommitNothing, Goto, repoVars, TypeOK,
         CommitInv, StatusInv, StatusIsComplete, Untracked, Steps, Answers
<1>6. ASSUME NEW r \in Requests, Commit(r) PROVE StatusIsComplete'
  BY <1>6
     DEF Commit, Staged, Moves, Goto, TypeOK, CommitInv, StatusInv, StatusIsComplete,
         Untracked, Steps, Answers
<1>7. ASSUME NEW r \in Requests, Push(r) PROVE StatusIsComplete'
  BY <1>7
     DEF Push, Goto, TypeOK, CommitInv, StatusInv, StatusIsComplete, Untracked, Steps,
         Answers
<1>8. ASSUME NEW r \in Requests, Listing(r) PROVE StatusIsComplete'
  <2> SUFFICES ASSUME NEW q \in Requests, kind'[q] = "status", pc'[q] = "ok",
                      NEW f \in dirty'[q] \ moved'[q]
               PROVE  f \in listed'[q]
    BY DEF StatusIsComplete
  <2>1. kind' = kind /\ dirty' = dirty /\ moved' = moved
    BY <1>8 DEF Listing, ListStaged, ListUnstaged, ListUntracked, Lists
  <2>2. f \in Files
    BY <2>1 DEF TypeOK
  <2>3. CASE pc[q] = "ok"
    <3>1. f \in listed[q]
      BY <2>1, <2>3 DEF StatusIsComplete
    <3> QED  BY <3>1, <1>8 DEF Listing, ListStaged, ListUnstaged, ListUntracked, Lists, TypeOK
  <2>4. CASE pc[q] # "ok"
    <3>1. q = r /\ ListUntracked(r) /\ pc[q] = "untracked"
      BY <2>4, <1>8
         DEF Listing, ListStaged, ListUnstaged, ListUntracked, Lists, Goto, TypeOK
    <3>2. f \in listed[q] \/ (index[f] = 0 /\ work[f] # 0)
      BY <3>1, <2>1 DEF StatusInv
    <3>3. f \in listed[q] \cup Untracked
      BY <3>2, <2>2 DEF Untracked
    <3> QED  BY <3>1, <3>3 DEF ListUntracked, Lists, TypeOK
  <2> QED  BY <2>3, <2>4
<1> QED
  BY <1>1, <1>2, <1>3, <1>4, <1>5, <1>6, <1>7, <1>8 DEF Next, RequestStep, Turns, Listing

-----------------------------------------------------------------------------
LEMMA InitInv == Init => IndInv
<1> SUFFICES ASSUME Init PROVE IndInv
  OBVIOUS
<1>1. TypeOK
  BY InitTypes
<1>2. VersionInv /\ CommitInv /\ StatusInv
  BY DEF Init, VersionInv, CommitInv, StatusInv
<1>3. AskedIsCommitted /\ LeftByTheUnfinished /\ StatusIsComplete
  BY DEF Init, AskedIsCommitted, LeftByTheUnfinished, StatusIsComplete, Staged
<1> QED  BY <1>1, <1>2, <1>3 DEF IndInv

LEMMA StepInv == IndInv /\ [Next]_vars => IndInv'
<1> SUFFICES ASSUME IndInv, [Next]_vars PROVE IndInv'
  OBVIOUS
<1>1. CASE Next
  BY <1>1, StepTypes, StepVersions, StepCommits, StepAsked, StepLeft, StepStatus, StepComplete
     DEF IndInv
<1>2. CASE UNCHANGED vars
  BY <1>2 DEF IndInv, TypeOK, VersionInv, CommitInv, StatusInv, AskedIsCommitted,
     LeftByTheUnfinished, StatusIsComplete, Staged, vars, repoVars, requestVars
<1> QED  BY <1>1, <1>2

-----------------------------------------------------------------------------
(* The inductive invariant holds in every reachable state, whatever the    *)
(* commands of git.ts are interleaved with.                                *)
THEOREM GitInductive == Spec => []IndInv
BY InitInv, StepInv, PTL DEF Spec

(* The repository and the requests of git.ts keep their types. *)
THEOREM GitTypes == Spec => []TypeOK
<1>1. IndInv => TypeOK
  BY DEF IndInv
<1> QED  BY GitInductive, <1>1, PTL

(* A commit request that is answered with success, or finds nothing staged *)
(* (git.ts:90-122), has its files in the last commit.                      *)
THEOREM CommitCommits == Spec => []AskedIsCommitted
<1>1. IndInv => AskedIsCommitted
  BY DEF IndInv
<1> QED  BY GitInductive, <1>1, PTL

(* Only requests that are under way or have failed leave files staged      *)
(* (git.ts:105-122).                                                       *)
THEOREM NothingLeftStaged == Spec => []LeftByTheUnfinished
<1>1. IndInv => LeftByTheUnfinished
  BY DEF IndInv
<1> QED  BY GitInductive, <1>1, PTL

(* The three lists of a status (git.ts:58-69) have every file that         *)
(* differed when it began and that nobody staged or committed since.       *)
THEOREM CompleteStatus == Spec => []StatusIsComplete
<1>1. IndInv => StatusIsComplete
  BY DEF IndInv
<1> QED  BY GitInductive, <1>1, PTL

(* The remote has no more than the project. *)
PushedInv == pushed <= commits

LEMMA StepForward ==
  ASSUME TypeOK, VersionInv, PushedInv, Next
  PROVE  /\ \A f \in Files : head[f] <= head'[f] /\ index[f] <= index'[f]
         /\ pushed <= pushed' /\ pushed' <= commits'
<1> DEFINE Forward == /\ \A f \in Files : head[f] <= head'[f] /\ index[f] <= index'[f]
                      /\ pushed <= pushed' /\ pushed' <= commits'
<1> USE DEF TypeOK, VersionInv, PushedInv
<1>1. CASE UNCHANGED <<head, index, pushed, commits>>
  BY <1>1
<1>2. ASSUME NEW r \in Requests, AddAll(r) \/ \E f \in Files : Add(r, f) PROVE Forward
  <2>1. UNCHANGED <<head, pushed, commits>> /\ pushed \in Nat /\ commits \in Nat
    BY <1>2 DEF AddAll, Add, Stages
  <2>2. \A f \in Files : index'[f] = index[f] \/ index'[f] = work[f]
    BY <1>2 DEF AddAll, Add, Stages
  <2>3. \A f \in Files : head[f] \in Nat /\ index[f] \in Nat /\ index[f] <= work[f]
    OBVIOUS
  <2> HIDE DEF TypeOK, VersionInv, PushedInv
  <2>4. \A f \in Files : head[f] <= head'[f] /\ index[f] <= index'[f]
    <3> SUFFICES ASSUME NEW f \in Files PROVE head[f] <= head'[f] /\ index[f] <= index'[f]
      OBVIOUS
    <3> QED BY <2>1, <2>2, <2>3
  <2> QED BY <2>1, <2>4 DEF PushedInv
<1>3. ASSUME NEW r \in Requests, Commit(r) PROVE Forward
  BY <1>3 DEF Commit
<1>4. ASSUME NEW r \in Requests, Push(r) PROVE Forward
  BY <1>4 DEF Push
<1>5. ASSUME NEW r \in Requests, NEW k, NEW F, Begin(r, k, F) \/ Turns(r) \/ Listing(r)
      PROVE  UNCHANGED <<head, index, pushed, commits>>
  BY <1>5 DEF Begin, Turns, Refuse, Added, CommandFails, CommitNothing, Listing,
     ListStaged, ListUnstaged, ListUntracked, Lists, repoVars
<1>6. ASSUME NEW f \in Files, Edit(f) PROVE UNCHANGED <<head, index, pushed, commits>>
  BY <1>6 DEF Edit
<1> QED
  BY <1>1, <1>2, <1>3, <1>4, <1>5, <1>6 DEF Next, RequestStep, Turns, Listing

(* Whatever requests stage and commit in between, no commit of git.ts      *)
(* (90-122) takes a file back to an older version, nor does a push         *)
(* (128-146) put anything on the remote that the project lacks.            *)
THEOREM GoesForward == Spec => NeverBack
<1>1. Init => PushedInv
  BY DEF Init, PushedInv
<1>2. IndInv /\ PushedInv /\ [Next]_vars => PushedInv'
  BY StepForward DEF IndInv, PushedInv, vars, repoVars
<1>3. IndInv /\ PushedInv /\ [Next]_vars
        => [/\ \A f \in Files : head[f] <= head'[f] /\ index[f] <= index'[f]
            /\ pushed <= pushed' /\ pushed' <= commits']_vars
  BY StepForward DEF IndInv
<1> QED  BY <1>1, <1>2, <1>3, GitInductive, PTL DEF Spec, NeverBack
=============================================================================
