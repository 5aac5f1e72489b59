------------------------ MODULE ProjectFiles_proofs ------------------------
(***************************************************************************)
(* Proofs about the project's files, for any number of files, requests,    *)
(* edits and blocks.  An inode that is not mixed has one writer at most;   *)
(* what is left when that writer has finished is its content, and a read   *)
(* that met no writer has read a prefix of it.                             *)
(***************************************************************************)
EXTENDS ProjectFiles, TLAPS

Blocks == Writers \cup {Hole}

(* The steps that only move a request on. *)
Moves(r) ==
  \/ Refuse(r) \/ Check(r) \/ FinishWrite(r) \/ WriteFails(r) \/ Stat(r) \/ FinishRead(r)
  \/ Unlink(r) /\ Inode(r) = None
  \/ OpenRead(r) /\ Inode(r) = None

Removes(r) == Unlink(r) /\ Inode(r) # None
OpensRead(r) == OpenRead(r) /\ Inode(r) # None

LEMMA Steps ==
  ASSUME Next
  PROVE  \/ \E r \in Requests, f \in Files, n \in Nat, k \in {"create", "update", "delete", "read"} :
              Sends(r, k, f, n) /\ (k \in {"delete", "read"} => n = 0)
         \/ \E r \in Requests : \/ Moves(r) \/ Open(r) \/ WriteBlock(r) \/ Removes(r)
                                \/ OpensRead(r) \/ ReadBlock(r)
         \/ \E e \in Edits, f \in Files : Edit(e, f)
<1>1. ASSUME NEW r \in Requests, NEW f \in Files,
             NEW k \in {"create", "update", "delete", "read"}, NEW n \in 0 .. MaxBlocks, Begin(r, k, f, n)
      PROVE  n \in Nat /\ Sends(r, k, f, n) /\ (k \in {"delete", "read"} => n = 0)
  <2>1. n \in Nat
    BY FilesAssumption
  <2> QED  BY <1>1, <2>1 DEF Begin
<1>2. ASSUME NEW r \in Requests, NEW f \in Files, NewFile(r, f)
      PROVE  Sends(r, "create", f, 0)
  BY <1>2 DEF NewFile
<1>3. ASSUME NEW r \in Requests, RequestStep(r)
      PROVE  Moves(r) \/ Open(r) \/ WriteBlock(r) \/ Removes(r) \/ OpensRead(r) \/ ReadBlock(r)
  BY <1>3 DEF RequestStep, Moves, Removes, OpensRead
<1>4. 0 \in Nat /\ "create" \in {"create", "update", "delete", "read"} /\ "create" \notin {"delete", "read"}
  OBVIOUS
<1>5. CASE \E r \in Requests, f \in Files :
             \E k \in {"create", "update", "delete", "read"}, n \in 0 .. MaxBlocks : Begin(r, k, f, n)
  BY <1>1, <1>5
<1>6. CASE \E r \in Requests, f \in Files : NewFile(r, f)
  BY <1>2, <1>4, <1>6
<1>7. CASE \E r \in Requests : RequestStep(r)
  BY <1>3, <1>7
<1>8. CASE \E e \in Edits, f \in Files : Edit(e, f)
  BY <1>8
<1> QED  BY <1>5, <1>6, <1>7, <1>8 DEF Next

(* What a step of a request that only moves it leaves alone. *)
LEMMA MoveFacts ==
  ASSUME TypeOK, NEW r \in Requests, Moves(r)
  PROVE  /\ UNCHANGED <<fileVars, kind, file, size, handle, pos, got, blurred>>
         /\ pc' = [pc EXCEPT ![r] = pc'[r]]
         /\ \A q \in Requests : q # r => pc'[q] = pc[q] /\ seen'[q] = seen[q]
         /\ \/ pc[r] = "idle" /\ pc'[r] = "refused"
            \/ pc[r] = "check" /\ pc'[r] \in {"refused", "open"}
            \/ pc[r] = "write" /\ pos[r] = size[r] /\ pc'[r] = "ok"
            \/ pc[r] \in {"open", "write", "unlink", "openread"} /\ pc'[r] = "error"
            \/ pc[r] = "stat" /\ pc'[r] \in {"refused", "openread"}
            \/ /\ pc[r] = "read" /\ pc'[r] = "ok"
               /\ pos[r] >= Len(data[handle[r]]) \/ (size[r] > 0 /\ pos[r] = size[r])
         /\ \/ seen' = seen
            \/ /\ pc[r] = "check" /\ Inode(r) = None
               /\ seen' = [seen EXCEPT ![r] = {i \in Writers : last[i] # None}]
<1> USE DEF Goto, fileVars, TypeOK
<1>1. CASE Refuse(r)
  BY <1>1 DEF Refuse
<1>2. CASE Check(r)
  BY <1>2 DEF Check
<1>3. CASE FinishWrite(r)
  BY <1>3 DEF FinishWrite
<1>4. CASE WriteFails(r)
  BY <1>4 DEF WriteFails
<1>5. CASE Stat(r)
  BY <1>5 DEF Stat
<1>6. CASE FinishRead(r)
  BY <1>6 DEF FinishRead
<1>7. CASE Unlink(r) /\ Inode(r) = None
  BY <1>7 DEF Unlink
<1>8. CASE OpenRead(r) /\ Inode(r) = None
  BY <1>8 DEF OpenRead
<1> QED  BY <1>1, <1>2, <1>3, <1>4, <1>5, <1>6, <1>7, <1>8 DEF Moves

-----------------------------------------------------------------------------
(* Sequences of blocks. *)
LEMMA WholeSeq ==
  ASSUME NEW n \in Nat, NEW w \in Writers
  PROVE  /\ [b \in 1 .. n |-> w] \in Seq(Blocks)
         /\ Len([b \in 1 .. n |-> w]) = n
BY DEF Blocks

LEMMA PutSeq ==
  ASSUME NEW h \in Seq(Blocks), NEW n \in Nat \ {0}, NEW w \in Writers
  PROVE  Put(h, n, w) \in Seq(Blocks)
<1> DEFINE m == IF n > Len(h) THEN n ELSE Len(h)
<1>1. m \in Nat /\ Len(h) \in Nat
  OBVIOUS
<1>2. \A b \in 1 .. m : (IF b = n THEN w ELSE IF b <= Len(h) THEN h[b] ELSE Hole) \in Blocks
  BY <1>1 DEF Blocks
<1> HIDE DEF m
<1>3. [b \in 1 .. m |-> IF b = n THEN w ELSE IF b <= Len(h) THEN h[b] ELSE Hole] \in Seq(Blocks)
  BY <1>1, <1>2
<1> QED  BY <1>3 DEF Put, m

(* The next block of a writer that is alone. *)
LEMMA PutNext ==
  ASSUME NEW n \in Nat, NEW w \in Writers
  PROVE  Put([b \in 1 .. n |-> w], n + 1, w) = [b \in 1 .. n + 1 |-> w]
<1> DEFINE h == [b \in 1 .. n |-> w]
<1>1. Len(h) = n
  BY WholeSeq
<1>2. (IF n + 1 > Len(h) THEN n + 1 ELSE Len(h)) = n + 1
  BY <1>1
<1>3. \A b \in 1 .. n + 1 : (IF b = n + 1 THEN w ELSE IF b <= Len(h) THEN h[b] ELSE Hole) = w
  BY <1>1
<1> HIDE DEF h
<1>4. Put(h, n + 1, w) = [b \in 1 .. n + 1 |-> w]
  BY <1>2, <1>3 DEF Put
<1> QED  BY <1>4 DEF h

LEMMA AppendNext ==
  ASSUME NEW n \in Nat, NEW w \in Writers
  PROVE  Append([b \in 1 .. n |-> w], w) = [b \in 1 .. n + 1 |-> w]
<1> DEFINE h == [b \in 1 .. n |-> w]
           g == [b \in 1 .. n + 1 |-> w]
<1>1. h \in Seq(Blocks) /\ Len(h) = n /\ g \in Seq(Blocks) /\ Len(g) = n + 1 /\ w \in Blocks
  BY WholeSeq DEF Blocks
<1>2. \A b \in 1 .. n : h[b] = w
  OBVIOUS
<1>3. \A b \in 1 .. n + 1 : g[b] = w
  OBVIOUS
<1> HIDE DEF h, g
<1>4. Append(h, w) \in Seq(Blocks) /\ Len(Append(h, w)) = n + 1
  BY <1>1
<1>5. \A b \in 1 .. n + 1 : Append(h, w)[b] = g[b]
  BY <1>1, <1>2, <1>3
<1>6. Append(h, w) = g
  BY <1>1, <1>4, <1>5
<1> QED  BY <1>6 DEF h, g

-----------------------------------------------------------------------------
(* Types. *)
LEMMA InitTypes == Init => TypeOK
<1> SUFFICES ASSUME Init PROVE TypeOK
  OBVIOUS
<1>1. <<>> \in Seq(Writers \cup {Hole})
  OBVIOUS
<1> QED  BY <1>1 DEF Init, TypeOK, Answers

LEMMA TruncateTypes ==
  ASSUME TypeOK, NEW w \in Writers, NEW i \in Writers, Truncates(w, i)
  PROVE  /\ last' \in [Writers -> Writers \cup {None}]
         /\ mixed' \subseteq Writers /\ blurred' \subseteq Requests
<1>1. last' \in [Writers -> Writers \cup {None}]
  BY DEF Truncates, TypeOK
<1>2. mixed' \subseteq Writers
  BY DEF Truncates, TypeOK
<1>3. blurred' \subseteq Requests
  BY DEF Truncates, TypeOK, Reading
<1> QED  BY <1>1, <1>2, <1>3

(* What Open and Edit do to the files. *)
LEMMA OpenFacts ==
  ASSUME TypeOK, NEW r \in Requests, file[r] \in Files, Open(r)
  PROVE  \E i \in Writers :
           /\ i = (IF Inode(r) = None THEN r ELSE Inode(r))
           /\ pc[r] = "open" /\ pc' = [pc EXCEPT ![r] = "write"]
           /\ tree' = [tree EXCEPT ![file[r]] = i]
           /\ data' = [data EXCEPT ![i] = <<>>]
           /\ handle' = [handle EXCEPT ![r] = i]
           /\ Truncates(r, i)
           /\ UNCHANGED <<gone, kind, file, size, pos, got, seen>>
<1> DEFINE i == IF Inode(r) = None THEN r ELSE Inode(r)
<1>1. i \in Writers
  BY DEF TypeOK, Inode, Writers
<1> QED  BY <1>1 DEF Open, Goto

LEMMA StepTypes == ASSUME TypeOK, RequestInv, Next PROVE TypeOK'
<1>1. ASSUME NEW r \in Requests, NEW f \in Files, NEW n \in Nat,
             NEW k \in {"create", "update", "delete", "read"}, Sends(r, k, f, n)
      PROVE  TypeOK'
  <2>1. /\ UNCHANGED <<tree, data, last, mixed, gone, handle, pos, got, seen, blurred>>
        /\ pc' = [pc EXCEPT ![r] = FirstStep(k)] /\ kind' = [kind EXCEPT ![r] = k]
        /\ file' = [file EXCEPT ![r] = f] /\ size' = [size EXCEPT ![r] = n]
    BY <1>1 DEF Sends, fileVars, Goto
  <2>2. FirstStep(k) \in {"check", "open", "unlink", "stat"}
    BY DEF FirstStep
  <2> QED  BY <2>1, <2>2 DEF TypeOK
<1>2. ASSUME NEW r \in Requests, Moves(r) PROVE TypeOK'
  <2>1. pc'[r] \in Answers \cup {"open", "openread"}
    BY <1>2, MoveFacts DEF Answers
  <2>2. seen' \in [Requests -> SUBSET Writers]
    <3>1. CASE seen' = seen
      BY <3>1 DEF TypeOK
    <3>2. CASE seen' = [seen EXCEPT ![r] = {i \in Writers : last[i] # None}]
      BY <3>2 DEF TypeOK
    <3> QED  BY <1>2, <3>1, <3>2, MoveFacts
  <2>3. /\ UNCHANGED <<tree, data, last, mixed, gone, kind, file, size, handle, pos, got, blurred>>
        /\ pc' = [pc EXCEPT ![r] = pc'[r]]
    BY <1>2, MoveFacts DEF fileVars
  <2>4. pc' \in [Requests -> {"idle", "check", "open", "write", "unlink", "stat", "openread", "read"}
                           \cup Answers]
    BY <2>1, <2>3 DEF TypeOK
  <2> QED  BY <2>2, <2>3, <2>4 DEF TypeOK
<1>3. ASSUME NEW r \in Requests, Open(r) PROVE TypeOK'
  <2>1. pc[r] = "open" /\ file[r] \in Files
    BY <1>3 DEF Open, RequestInv
  <2>2. PICK i \in Writers :
           /\ pc' = [pc EXCEPT ![r] = "write"]
           /\ tree' = [tree EXCEPT ![file[r]] = i]
           /\ data' = [data EXCEPT ![i] = <<>>]
           /\ handle' = [handle EXCEPT ![r] = i]
           /\ Truncates(r, i)
           /\ UNCHANGED <<gone, kind, file, size, pos, got, seen>>
    BY <1>3, <2>1, OpenFacts
  <2>3. r \in Writers /\ <<>> \in Seq(Writers \cup {Hole})
    BY DEF Writers
  <2> QED  BY <2>2, <2>3, TruncateTypes DEF TypeOK
<1>4. ASSUME NEW r \in Requests, WriteBlock(r) PROVE TypeOK'
  <2>1. handle[r] \in Writers
    BY <1>4 DEF WriteBlock, RequestInv, TypeOK
  <2>2. Put(data[handle[r]], pos[r] + 1, r) \in Seq(Blocks)
    <3>1. r \in Writers /\ data[handle[r]] \in Seq(Blocks) /\ pos[r] + 1 \in Nat \ {0}
      BY <2>1 DEF TypeOK, Writers, Blocks
    <3> QED  BY <3>1, PutSeq
  <2>3. data' \in [Writers -> Seq(Writers \cup {Hole})]
    BY <1>4, <2>1, <2>2 DEF WriteBlock, TypeOK, Blocks
  <2>4. blurred' \subseteq Requests /\ pos' \in [Requests -> Nat]
    BY <1>4 DEF WriteBlock, TypeOK, Reading
  <2> QED  BY <1>4, <2>3, <2>4 DEF WriteBlock, TypeOK
<1>5. ASSUME NEW r \in Requests, Removes(r) PROVE TypeOK'
  <2>1. file[r] \in Files
    BY <1>5 DEF Removes, Unlink, RequestInv
  <2>2. Inode(r) \in Writers
    BY <1>5, <2>1 DEF Removes, TypeOK, Inode
  <2>3. /\ pc' = [pc EXCEPT ![r] = "ok"] /\ tree' = [tree EXCEPT ![file[r]] = None]
        /\ gone' = gone \cup {Inode(r)}
        /\ UNCHANGED <<data, last, mixed, kind, file, size, handle, pos, got, seen, blurred>>
    BY <1>5 DEF Removes, Unlink, Goto
  <2> QED  BY <2>1, <2>2, <2>3 DEF TypeOK, Answers
<1>6. ASSUME NEW r \in Requests, OpensRead(r) PROVE TypeOK'
  <2>1. file[r] \in Files
    BY <1>6 DEF OpensRead, OpenRead, RequestInv
  <2>2. Inode(r) \in Writers
    BY <1>6, <2>1 DEF OpensRead, TypeOK, Inode
  <2>3. Len(data[Inode(r)]) \in Nat
    BY <2>2 DEF TypeOK
  <2>4. /\ pc' = [pc EXCEPT ![r] = "read"] /\ handle' = [handle EXCEPT ![r] = Inode(r)]
        /\ size' = [size EXCEPT ![r] = Len(data[Inode(r)])]
        /\ blurred' \subseteq blurred \cup {r}
        /\ UNCHANGED <<tree, data, last, mixed, gone, kind, file, pos, got, seen>>
    BY <1>6 DEF OpensRead, OpenRead, Goto, fileVars
  <2>5. size' \in [Writers -> Nat]
    BY <2>3, <2>4 DEF TypeOK
  <2>6. handle' \in [Requests -> Writers \cup {None}] /\ blurred' \subseteq Requests
    BY <2>2, <2>4 DEF TypeOK
  <2> QED  BY <2>4, <2>5, <2>6 DEF TypeOK
<1>7. ASSUME NEW r \in Requests, ReadBlock(r) PROVE TypeOK'
  <2>1. handle[r] \in Writers
    BY <1>7 DEF ReadBlock, RequestInv, TypeOK
  <2>2. data[handle[r]] \in Seq(Writers \cup {Hole}) /\ pos[r] \in Nat
    BY <2>1 DEF TypeOK
  <2>3. pos[r] + 1 \in 1 .. Len(data[handle[r]])
    BY <1>7, <2>2 DEF ReadBlock
  <2>4. data[handle[r]][pos[r] + 1] \in Writers \cup {Hole}
    BY <2>2, <2>3
  <2>5. got' \in [Requests -> Seq(Writers \cup {Hole})]
    BY <1>7, <2>4 DEF ReadBlock, TypeOK
  <2>6. pos' \in [Requests -> Nat]
    BY <1>7 DEF ReadBlock, TypeOK
  <2> QED  BY <1>7, <2>5, <2>6 DEF ReadBlock, TypeOK, fileVars
<1>8. ASSUME NEW e \in Edits, NEW f \in Files, Edit(e, f) PROVE TypeOK'
  <2>1. e \in Writers /\ tree[f] \in Writers \cup {None}
    BY DEF TypeOK, Writers
  <2>2. PICK i \in {e} \cup ({tree[f]} \ {None}) :
           /\ tree' = [tree EXCEPT ![f] = i]
           /\ data' = [data EXCEPT ![i] = <<e>>]
           /\ gone' = gone \cup ({tree[f]} \ {None, i})
           /\ Truncates(e, i)
    BY <1>8 DEF Edit
  <2>3. i \in Writers /\ <<e>> \in Seq(Writers \cup {Hole})
    BY <2>1
  <2>4. /\ file' = [file EXCEPT ![e] = f] /\ size' = [size EXCEPT ![e] = 1]
        /\ UNCHANGED <<pc, kind, handle, pos, got, seen>>
    BY <1>8 DEF Edit
  <2>5. gone' \subseteq Writers
    BY <2>1, <2>2 DEF TypeOK
  <2>6. data' \in [Writers -> Seq(Writers \cup {Hole})] /\ tree' \in [Files -> Writers \cup {None}]
    BY <2>2, <2>3 DEF TypeOK
  <2> QED  BY <2>1, <2>2, <2>3, <2>4, <2>5, <2>6, TruncateTypes DEF TypeOK
<1> QED  BY Steps, <1>1, <1>2, <1>3, <1>4, <1>5, <1>6, <1>7, <1>8

-----------------------------------------------------------------------------
(* The case split that the lemmas about steps share: what each kind of step *)
(* does, with the definitions expanded.                                     *)
SendsFacts(r) ==
  /\ pc[r] = "idle" /\ pc'[r] \in {"check", "open", "unlink", "stat"}
  /\ \A q \in Requests : q # r => pc'[q] = pc[q] /\ kind'[q] = kind[q]
  /\ \A w \in Writers : w # r => file'[w] = file[w] /\ size'[w] = size[w]
  /\ file'[r] \in Files
  /\ pc'[r] \in {"check", "open"} => kind'[r] \in {"create", "update"}
  /\ pc'[r] = "unlink" => kind'[r] = "delete"
  /\ pc'[r] = "stat" => kind'[r] = "read"
  /\ UNCHANGED <<tree, data, last, mixed, gone, handle, pos, got, seen, blurred>>

LEMMA SendsStep ==
  ASSUME TypeOK, NEW r \in Requests, NEW f \in Files, NEW n \in Nat,
         NEW k \in {"create", "update", "delete", "read"}, Sends(r, k, f, n)
  PROVE  SendsFacts(r)
<1>1. /\ pc[r] = "idle"
      /\ UNCHANGED <<tree, data, last, mixed, gone, handle, pos, got, seen, blurred>>
      /\ pc' = [pc EXCEPT ![r] = FirstStep(k)] /\ kind' = [kind EXCEPT ![r] = k]
      /\ file' = [file EXCEPT ![r] = f] /\ size' = [size EXCEPT ![r] = n]
  BY DEF Sends, fileVars, Goto
<1>2. r \in Writers
  BY DEF Writers
<1>3. pc'[r] = FirstStep(k) /\ kind'[r] = k /\ file'[r] = f
  BY <1>1, <1>2 DEF TypeOK
<1>4. \A q \in Requests : q # r => pc'[q] = pc[q] /\ kind'[q] = kind[q]
  BY <1>1 DEF TypeOK
<1>5. \A w \in Writers : w # r => file'[w] = file[w] /\ size'[w] = size[w]
  BY <1>1 DEF TypeOK
<1> QED  BY <1>1, <1>3, <1>4, <1>5 DEF SendsFacts, FirstStep

OpenStep(r, i) ==
  /\ i = (IF Inode(r) = None THEN r ELSE Inode(r))
  /\ pc[r] = "open" /\ pc'[r] = "write" /\ handle'[r] = i
  /\ \A q \in Requests : q # r => pc'[q] = pc[q] /\ handle'[q] = handle[q]
  /\ tree' = [tree EXCEPT ![file[r]] = i]
  /\ data'[i] = <<>> /\ last'[i] = r
  /\ \A j \in Writers : j # i => data'[j] = data[j] /\ last'[j] = last[j]
  /\ mixed' = (IF Writing(i) = {} THEN mixed \ {i} ELSE mixed \cup {i})
  /\ blurred' = blurred \cup Reading(i)
  /\ UNCHANGED <<gone, kind, file, size, pos, got, seen>>

LEMMA OpenStepFacts ==
  ASSUME TypeOK, RequestInv, NEW r \in Requests, Open(r)
  PROVE  file[r] \in Files /\ \E i \in Writers : OpenStep(r, i)
<1>1. file[r] \in Files
  BY DEF Open, RequestInv
<1>2. PICK i \in Writers :
           /\ i = (IF Inode(r) = None THEN r ELSE Inode(r))
           /\ pc[r] = "open" /\ pc' = [pc EXCEPT ![r] = "write"]
           /\ tree' = [tree EXCEPT ![file[r]] = i]
           /\ data' = [data EXCEPT ![i] = <<>>]
           /\ handle' = [handle EXCEPT ![r] = i]
           /\ Truncates(r, i)
           /\ UNCHANGED <<gone, kind, file, size, pos, got, seen>>
  BY <1>1, OpenFacts
<1>3. pc'[r] = "write" /\ handle'[r] = i /\ data'[i] = <<>> /\ last'[i] = r
  BY <1>2 DEF TypeOK, Truncates
<1>4. /\ \A q \in Requests : q # r => pc'[q] = pc[q] /\ handle'[q] = handle[q]
      /\ \A j \in Writers : j # i => data'[j] = data[j] /\ last'[j] = last[j]
  BY <1>2 DEF TypeOK, Truncates
<1>5. OpenStep(r, i)
  BY <1>2, <1>3, <1>4 DEF OpenStep, Truncates
<1> QED  BY <1>1, <1>5

EditStep(e, f, i) ==
  /\ i = e \/ (i = tree[f] /\ i # None)
  /\ file[e] = None /\ file'[e] = f /\ size'[e] = 1
  /\ \A w \in Writers : w # e => file'[w] = file[w] /\ size'[w] = size[w]
  /\ tree' = [tree EXCEPT ![f] = i]
  /\ data'[i] = <<e>> /\ last'[i] = e
  /\ \A j \in Writers : j # i => data'[j] = data[j] /\ last'[j] = last[j]
  /\ gone' = gone \cup ({tree[f]} \ {None, i})
  /\ mixed' = (IF Writing(i) = {} THEN mixed \ {i} ELSE mixed \cup {i})
  /\ blurred' = blurred \cup Reading(i)
  /\ UNCHANGED <<pc, kind, handle, pos, got, seen>>

LEMMA EditStepFacts ==
  ASSUME TypeOK, NEW e \in Edits, NEW f \in Files, Edit(e, f)
  PROVE  \E i \in Writers : EditStep(e, f, i)
<1>1. e \in Writers /\ tree[f] \in Writers \cup {None}
  BY DEF TypeOK, Writers
<1>2. PICK i \in {e} \cup ({tree[f]} \ {None}) :
           /\ tree' = [tree EXCEPT ![f] = i]
           /\ data' = [data EXCEPT ![i] = <<e>>]
           /\ gone' = gone \cup ({tree[f]} \ {None, i})
           /\ Truncates(e, i)
  BY DEF Edit
<1>3. i \in Writers
  BY <1>1
<1>4. data'[i] = <<e>> /\ last'[i] = e
  BY <1>2, <1>3 DEF TypeOK, Truncates
<1>5. \A j \in Writers : j # i => data'[j] = data[j] /\ last'[j] = last[j]
  BY <1>2 DEF TypeOK, Truncates
<1>6. /\ file[e] = None /\ file'[e] = f /\ size'[e] = 1
      /\ \A w \in Writers : w # e => file'[w] = file[w] /\ size'[w] = size[w]
      /\ UNCHANGED <<pc, kind, handle, pos, got, seen>>
  BY <1>1 DEF Edit, TypeOK
<1>7. EditStep(e, f, i)
  BY <1>2, <1>4, <1>5, <1>6 DEF EditStep, Truncates
<1> QED  BY <1>3, <1>7

WriteStep(r, i) ==
  /\ pc[r] = "write" /\ pos[r] < size[r] /\ i = handle[r]
  /\ data'[i] = Put(data[i], pos[r] + 1, r) /\ pos'[r] = pos[r] + 1
  /\ \A j \in Writers : j # i => data'[j] = data[j]
  /\ \A q \in Requests : q # r => pos'[q] = pos[q]
  /\ blurred' = blurred \cup Reading(i)
  /\ UNCHANGED <<tree, last, mixed, gone, pc, kind, file, size, handle, got, seen>>

LEMMA WriteStepFacts ==
  ASSUME TypeOK, RequestInv, NEW r \in Requests, WriteBlock(r)
  PROVE  \E i \in Writers : WriteStep(r, i)
<1>1. handle[r] \in Writers
  BY DEF WriteBlock, RequestInv, TypeOK
<1>2. WriteStep(r, handle[r])
  BY <1>1 DEF WriteBlock, TypeOK, WriteStep
<1> QED  BY <1>1, <1>2

RemoveStep(r, i) ==
  /\ pc[r] = "unlink" /\ pc'[r] = "ok" /\ file[r] \in Files /\ i = tree[file[r]]
  /\ \A q \in Requests : q # r => pc'[q] = pc[q]
  /\ tree' = [tree EXCEPT ![file[r]] = None]
  /\ gone' = gone \cup {i}
  /\ UNCHANGED <<data, last, mixed, kind, file, size, handle, pos, got, seen, blurred>>

LEMMA RemoveStepFacts ==
  ASSUME TypeOK, RequestInv, NEW r \in Requests, Removes(r)
  PROVE  \E i \in Writers : RemoveStep(r, i)
<1>1. file[r] \in Files
  BY DEF Removes, Unlink, RequestInv
<1>2. Inode(r) \in Writers
  BY <1>1 DEF Removes, TypeOK, Inode
<1>3. RemoveStep(r, Inode(r))
  BY <1>1 DEF Removes, Unlink, Goto, RemoveStep, Inode, TypeOK
<1> QED  BY <1>2, <1>3

OpenReadStep(r, i) ==
  /\ pc[r] = "openread" /\ pc'[r] = "read" /\ file[r] \in Files /\ i = tree[file[r]]
  /\ handle'[r] = i /\ size'[r] = Len(data[i])
  /\ \A q \in Requests : q # r => pc'[q] = pc[q] /\ handle'[q] = handle[q]
  /\ \A w \in Writers : w # r => size'[w] = size[w]
  /\ blurred' = IF Settled(i) THEN blurred ELSE blurred \cup {r}
  /\ UNCHANGED <<fileVars, kind, file, pos, got, seen>>

LEMMA OpenReadStepFacts ==
  ASSUME TypeOK, RequestInv, NEW r \in Requests, OpensRead(r)
  PROVE  \E i \in Writers : OpenReadStep(r, i)
<1>1. file[r] \in Files
  BY DEF OpensRead, OpenRead, RequestInv
<1>2. Inode(r) \in Writers /\ r \in Writers
  BY <1>1 DEF OpensRead, TypeOK, Inode, Writers
<1>3. OpenReadStep(r, Inode(r))
  BY <1>1, <1>2 DEF OpensRead, OpenRead, Goto, OpenReadStep, Inode, TypeOK
<1> QED  BY <1>2, <1>3

ReadStep(r, i) ==
  /\ pc[r] = "read" /\ i = handle[r]
  /\ pos[r] < Len(data[i]) /\ (size[r] = 0 \/ pos[r] < size[r])
  /\ got'[r] = Append(got[r], data[i][pos[r] + 1]) /\ pos'[r] = pos[r] + 1
  /\ \A q \in Requests : q # r => got'[q] = got[q] /\ pos'[q] = pos[q]
  /\ UNCHANGED <<fileVars, pc, kind, file, size, handle, seen, blurred>>

LEMMA ReadStepFacts ==
  ASSUME TypeOK, RequestInv, NEW r \in Requests, ReadBlock(r)
  PROVE  \E i \in Writers : ReadStep(r, i)
<1>1. handle[r] \in Writers
  BY DEF ReadBlock, RequestInv, TypeOK
<1>2. ReadStep(r, handle[r])
  BY <1>1 DEF ReadBlock, TypeOK, ReadStep
<1> QED  BY <1>1, <1>2

Cases ==
  \/ \E r \in Requests : SendsFacts(r) \/ Moves(r)
  \/ \E r \in Requests, i \in Writers :
       OpenStep(r, i) \/ WriteStep(r, i) \/ RemoveStep(r, i) \/ OpenReadStep(r, i) \/ ReadStep(r, i)
  \/ \E e \in Edits, f \in Files, i \in Writers : EditStep(e, f, i)

LEMMA StepCases == ASSUME TypeOK, RequestInv, Next PROVE Cases
<1>1. CASE \E r \in Requests, f \in Files, n \in Nat, k \in {"create", "update", "delete", "read"} :
             Sends(r, k, f, n)
  BY <1>1, SendsStep DEF Cases
<1>2. CASE \E r \in Requests : \/ Moves(r) \/ Open(r) \/ WriteBlock(r) \/ Removes(r)
                              \/ OpensRead(r) \/ ReadBlock(r)
  BY <1>2, OpenStepFacts, WriteStepFacts, RemoveStepFacts, OpenReadStepFacts, ReadStepFacts DEF Cases
<1>3. CASE \E e \in Edits, f \in Files : Edit(e, f)
  BY <1>3, EditStepFacts DEF Cases
<1> QED  BY Steps, <1>1, <1>2, <1>3

-----------------------------------------------------------------------------
(* Names that are not in use yet. *)
LEMMA Unused ==
  ASSUME TypeOK, LinkInv, LastInv, RequestInv
  PROVE  /\ \A e \in Edits : file[e] = None => last[e] = None
         /\ \A w \in Writers : last[w] = None =>
              /\ w \notin gone /\ \A f \in Files : tree[f] # w
              /\ \A q \in Requests : handle[q] # w
         /\ \A r \in Requests : pc[r] \in {"idle", "check", "open", "unlink", "stat", "openread"} =>
              last[r] = None /\ \A i \in Writers : last[i] # r
         /\ \A e \in Edits : file[e] = None => \A i \in Writers : last[i] # e
<1>1. \A e \in Edits : file[e] = None => last[e] = None
  BY FilesAssumption DEF LinkInv, Writers
<1>2. \A w \in Writers : last[w] = None => w \notin gone /\ \A f \in Files : tree[f] # w
  BY FilesAssumption DEF LinkInv, TypeOK
<1>3. \A w \in Writers : last[w] = None => \A q \in Requests : handle[q] # w
  BY FilesAssumption DEF RequestInv, TypeOK
<1>4. ASSUME NEW r \in Requests, pc[r] \in {"idle", "check", "open", "unlink", "stat", "openread"}
      PROVE  last[r] = None /\ \A i \in Writers : last[i] # r
  <2>1. ~ Fixed(r)
    BY <1>4, FilesAssumption DEF Fixed
  <2> QED  BY <1>4, <2>1, FilesAssumption DEF LastInv, RequestInv, Writers
<1>5. ASSUME NEW e \in Edits, file[e] = None PROVE \A i \in Writers : last[i] # e
  <2>1. ~ Fixed(e)
    BY <1>5, FilesAssumption DEF Fixed
  <2> QED  BY <2>1, FilesAssumption DEF LastInv, Writers
<1> QED  BY <1>1, <1>2, <1>3, <1>4, <1>5

LEMMA StepLinks == ASSUME TypeOK, LinkInv, LastInv, RequestInv, Next PROVE LinkInv'
<1>0. /\ \A f \in Files : tree[f] # None =>
           tree[f] \in Writers /\ last[tree[f]] # None /\ tree[f] \notin gone /\ file[tree[f]] = f
      /\ \A i \in Writers : last[i] # None => file[i] \in Files /\ (i \notin gone => tree[file[i]] = i)
      /\ \A i \in gone : i \in Writers /\ last[i] # None
  BY DEF LinkInv, TypeOK
<1> SUFFICES
      /\ \A f \in Files : tree'[f] # None =>
           last'[tree'[f]] # None /\ tree'[f] \notin gone' /\ file'[tree'[f]] = f
      /\ \A i \in Writers : last'[i] # None => file'[i] \in Files /\ (i \notin gone' => tree'[file'[i]] = i)
      /\ \A i \in gone' : last'[i] # None
  BY DEF LinkInv
<1> DEFINE Goal == /\ \A f \in Files : tree'[f] # None =>
                        last'[tree'[f]] # None /\ tree'[f] \notin gone' /\ file'[tree'[f]] = f
                   /\ \A i \in Writers : last'[i] # None =>
                        file'[i] \in Files /\ (i \notin gone' => tree'[file'[i]] = i)
                   /\ \A i \in gone' : last'[i] # None
<1>1. ASSUME NEW r \in Requests, SendsFacts(r) PROVE Goal
  <2>1. last[r] = None /\ r \in Writers
    BY <1>1, Unused DEF SendsFacts, Writers
  <2>2. \A i \in Writers : last[i] # None => file'[i] = file[i]
    BY <1>1, <2>1 DEF SendsFacts
  <2> QED  BY <1>0, <1>1, <2>2 DEF SendsFacts
<1>2. ASSUME NEW r \in Requests, Moves(r) PROVE Goal
  BY <1>0, <1>2, MoveFacts DEF fileVars
<1>3. ASSUME NEW r \in Requests, NEW i \in Writers,
             WriteStep(r, i) \/ OpenReadStep(r, i) \/ ReadStep(r, i)
      PROVE  Goal
  BY <1>0, <1>3 DEF WriteStep, OpenReadStep, ReadStep, fileVars
<1>4. ASSUME NEW r \in Requests, NEW i \in Writers, OpenStep(r, i) PROVE Goal
  <2>1. /\ file[r] \in Files /\ r \in Writers /\ last[r] = None /\ r \notin gone /\ r # None
        /\ \A f \in Files : tree[f] # r
    BY <1>4, Unused, FilesAssumption DEF OpenStep, RequestInv, Writers
  <2>2. /\ i = (IF tree[file[r]] = None THEN r ELSE tree[file[r]])
        /\ tree'[file[r]] = i /\ (\A f \in Files : f # file[r] => tree'[f] = tree[f])
        /\ last'[i] = r /\ (\A j \in Writers : j # i => last'[j] = last[j])
        /\ gone' = gone /\ file' = file
    BY <1>4, <2>1 DEF OpenStep, TypeOK, Inode
  <2>3. file[i] = file[r] /\ i \notin gone
    BY <1>0, <2>1, <2>2
  <2>4. \A j \in Writers : last'[j] # None => file[j] \in Files
    BY <1>0, <2>1, <2>2, <2>3
  <2>5. ASSUME NEW j \in Writers, last'[j] # None, j \notin gone PROVE tree'[file[j]] = j
    <3>1. CASE j = i
      BY <2>2, <2>3, <3>1
    <3>2. CASE j # i
      <4>1. last[j] # None /\ tree[file[j]] = j
        BY <1>0, <2>2, <2>5, <3>2
      <4>2. file[j] # file[r]
        BY <2>1, <2>2, <3>2, <4>1, FilesAssumption
      <4> QED  BY <2>2, <2>4, <2>5, <4>1, <4>2
    <3> QED  BY <3>1, <3>2
  <2>6. ASSUME NEW f \in Files, tree'[f] # None
        PROVE  last'[tree'[f]] # None /\ tree'[f] \notin gone /\ file[tree'[f]] = f
    <3>1. CASE f = file[r]
      BY <2>1, <2>2, <2>3, <3>1
    <3>2. CASE f # file[r]
      <4>1. tree'[f] = tree[f] /\ tree[f] \in Writers /\ last[tree[f]] # None /\ file[tree[f]] = f
            /\ tree[f] \notin gone
        BY <1>0, <2>2, <2>6, <3>2
      <4>2. tree[f] # i
        BY <2>3, <3>2, <4>1
      <4> QED  BY <2>2, <4>1, <4>2
    <3> QED  BY <3>1, <3>2
  <2>7. \A j \in gone : last'[j] # None
    BY <1>0, <2>2, <2>3
  <2> QED  BY <2>2, <2>4, <2>5, <2>6, <2>7
<1>5. ASSUME NEW r \in Requests, NEW i \in Writers, RemoveStep(r, i) PROVE Goal
  <2>1. /\ file[r] \in Files /\ i = tree[file[r]] /\ i # None
        /\ tree'[file[r]] = None /\ (\A f \in Files : f # file[r] => tree'[f] = tree[f])
        /\ gone' = gone \cup {i} /\ file' = file /\ last' = last
    BY <1>5, FilesAssumption DEF RemoveStep, TypeOK
  <2> QED  BY <1>0, <2>1
<1>6. ASSUME NEW e \in Edits, NEW f \in Files, NEW i \in Writers, EditStep(e, f, i) PROVE Goal
  <2>1. /\ e \in Writers /\ last[e] = None /\ e \notin gone /\ e # None
        /\ \A g \in Files : tree[g] # e
    BY <1>6, Unused, FilesAssumption DEF EditStep, Writers
  <2>2. /\ i = e \/ (i = tree[f] /\ i # None)
        /\ tree'[f] = i /\ (\A g \in Files : g # f => tree'[g] = tree[g])
        /\ last'[i] = e /\ (\A j \in Writers : j # i => last'[j] = last[j])
        /\ gone' = gone \cup ({tree[f]} \ {None, i})
        /\ file'[e] = f /\ (\A j \in Writers : j # e => file'[j] = file[j])
    BY <1>6 DEF EditStep, TypeOK
  <2>3. file'[i] = f /\ i \notin gone' /\ i # None
    BY <1>0, <2>1, <2>2
  <2>4. ASSUME NEW j \in Writers, last'[j] # None
        PROVE  file'[j] \in Files /\ (j \notin gone' => tree'[file'[j]] = j)
    <3>1. CASE j = i
      BY <2>2, <2>3, <3>1
    <3>2. CASE j # i
      <4>1. last[j] # None /\ j # e /\ file'[j] = file[j] /\ file[j] \in Files
        BY <1>0, <2>1, <2>2, <2>4, <3>2
      <4>2. ASSUME j \notin gone' PROVE tree'[file[j]] = j
        <5>1. tree[file[j]] = j
          BY <1>0, <2>2, <4>1, <4>2
        <5>2. file[j] # f
          BY <2>2, <3>2, <4>1, <4>2, <5>1, FilesAssumption
        <5> QED  BY <2>2, <4>1, <5>1, <5>2
      <4> QED  BY <4>1, <4>2
    <3> QED  BY <3>1, <3>2
  <2>5. ASSUME NEW g \in Files, tree'[g] # None
        PROVE  last'[tree'[g]] # None /\ tree'[g] \notin gone' /\ file'[tree'[g]] = g
    <3>1. CASE g = f
      BY <2>1, <2>2, <2>3, <3>1
    <3>2. CASE g # f
      <4>1. tree'[g] = tree[g] /\ tree[g] \in Writers /\ last[tree[g]] # None /\ file[tree[g]] = g
            /\ tree[g] \notin gone
        BY <1>0, <2>2, <2>5, <3>2
      <4>2. tree[g] # e /\ file'[tree[g]] = g
        BY <2>1, <2>2, <4>1
      <4>3. tree[g] # i
        BY <2>3, <3>2, <4>2
      <4>4. tree[g] # tree[f]
        <5>1. tree[f] # None => file[tree[f]] = f
          BY <1>0
        <5>2. tree[g] # None
          BY <2>5, <4>1
        <5> QED  BY <3>2, <4>1, <5>1, <5>2
      <4> QED  BY <2>2, <4>1, <4>2, <4>3, <4>4
    <3> QED  BY <3>1, <3>2
  <2>6. \A j \in gone' : last'[j] # None
    BY <1>0, <2>1, <2>2, FilesAssumption
  <2> QED  BY <2>4, <2>5, <2>6
<1> QED  BY StepCases, <1>1, <1>2, <1>3, <1>4, <1>5, <1>6 DEF Cases

(* The content of a writer stays settled. *)
LEMMA FixedStays ==
  ASSUME TypeOK, RequestInv, Next, NEW w \in Writers, Fixed(w)
  PROVE  /\ Fixed(w)' /\ size'[w] = size[w]
         /\ w \in Requests => handle'[w] = handle[w]
<1>0. \/ w \in Edits /\ w \notin Requests /\ file[w] # None
      \/ w \in Requests /\ w \notin Edits /\ kind[w] # "read" /\ pc[w] \in {"write", "ok", "error"}
  BY FilesAssumption DEF Fixed
<1>1. ASSUME NEW r \in Requests, SendsFacts(r) PROVE w # r
  BY <1>0, <1>1 DEF SendsFacts
<1>2. ASSUME NEW r \in Requests, SendsFacts(r)
      PROVE  Fixed(w)' /\ size'[w] = size[w] /\ (w \in Requests => handle'[w] = handle[w])
  <2>1. file'[w] = file[w] /\ size'[w] = size[w] /\ handle' = handle
    BY <1>1, <1>2 DEF SendsFacts
  <2>2. w \in Requests => pc'[w] = pc[w] /\ kind'[w] = kind[w]
    BY <1>1, <1>2 DEF SendsFacts
  <2> QED  BY <1>0, <2>1, <2>2 DEF Fixed
<1>3. ASSUME NEW r \in Requests, Moves(r)
      PROVE  Fixed(w)' /\ size'[w] = size[w] /\ (w \in Requests => handle'[w] = handle[w])
  <2>1. file' = file /\ size' = size /\ handle' = handle /\ kind' = kind
    BY <1>3, MoveFacts
  <2>2. w \in Requests /\ w # r => pc'[w] = pc[w]
    BY <1>3, MoveFacts
  <2>3. w = r => pc'[w] \in {"ok", "error"}
    BY <1>0, <1>3, MoveFacts
  <2> QED  BY <1>0, <2>1, <2>2, <2>3 DEF Fixed
<1>4. ASSUME NEW r \in Requests, NEW i \in Writers, OpenStep(r, i)
      PROVE  Fixed(w)' /\ size'[w] = size[w] /\ (w \in Requests => handle'[w] = handle[w])
  BY <1>0, <1>4 DEF OpenStep, Fixed
<1>5. ASSUME NEW r \in Requests, NEW i \in Writers, WriteStep(r, i) \/ ReadStep(r, i)
      PROVE  Fixed(w)' /\ size'[w] = size[w] /\ (w \in Requests => handle'[w] = handle[w])
  BY <1>0, <1>5 DEF WriteStep, ReadStep, Fixed
<1>6. ASSUME NEW r \in Requests, NEW i \in Writers, RemoveStep(r, i)
      PROVE  Fixed(w)' /\ size'[w] = size[w] /\ (w \in Requests => handle'[w] = handle[w])
  BY <1>0, <1>6 DEF RemoveStep, Fixed
<1>7. ASSUME NEW r \in Requests, NEW i \in Writers, OpenReadStep(r, i)
      PROVE  Fixed(w)' /\ size'[w] = size[w] /\ (w \in Requests => handle'[w] = handle[w])
  BY <1>0, <1>7 DEF OpenReadStep, Fixed
<1>8. ASSUME NEW e \in Edits, NEW f \in Files, NEW i \in Writers, EditStep(e, f, i)
      PROVE  Fixed(w)' /\ size'[w] = size[w] /\ (w \in Requests => handle'[w] = handle[w])
  <2>1. w # e
    BY <1>0, <1>8, FilesAssumption DEF EditStep
  <2> QED  BY <1>0, <1>8, <2>1 DEF EditStep, Fixed
<1> QED  BY StepCases, <1>2, <1>3, <1>4, <1>5, <1>6, <1>7, <1>8 DEF Cases

LEMMA StepLast == ASSUME TypeOK, LinkInv, LastInv, RequestInv, Next PROVE LastInv'
<1> SUFFICES ASSUME NEW i \in Writers, last'[i] # None
             PROVE  Fixed(last[i])' /\ (last'[i] \in Requests => handle'[last'[i]] = i)
  BY DEF LastInv
<1>1. ASSUME last'[i] = last[i]
      PROVE  Fixed(last[i])' /\ (last'[i] \in Requests => handle'[last'[i]] = i)
  <2>1. PICK w \in Writers : w = last[i]
    BY <1>1 DEF TypeOK
  <2>2. Fixed(w) /\ (w \in Requests => handle[w] = i)
    BY <1>1, <2>1 DEF LastInv
  <2>3. Fixed(w)' /\ (w \in Requests => handle'[w] = i)
    BY <2>2, FixedStays
  <2> QED  BY <1>1, <2>1, <2>3
<1>2. ASSUME NEW r \in Requests, NEW j \in Writers, OpenStep(r, j), i = j
      PROVE  Fixed(last[i])' /\ (last'[i] \in Requests => handle'[last'[i]] = i)
  <2>1. last'[i] = r /\ handle'[r] = i /\ pc'[r] = "write" /\ kind'[r] \in {"create", "update"}
    BY <1>2 DEF OpenStep, RequestInv
  <2>2. Fixed(r)'
    BY <2>1 DEF Fixed
  <2> QED  BY <2>1, <2>2
<1>3. ASSUME NEW e \in Edits, NEW f \in Files, NEW j \in Writers, EditStep(e, f, j), i = j
      PROVE  Fixed(last[i])' /\ (last'[i] \in Requests => handle'[last'[i]] = i)
  <2>1. last'[i] = e /\ file'[e] # None /\ e \notin Requests
    BY <1>3, FilesAssumption DEF EditStep
  <2>2. Fixed(e)'
    BY <2>1 DEF Fixed
  <2> QED  BY <2>1, <2>2
<1>4. ASSUME NEW r \in Requests, SendsFacts(r) \/ Moves(r) PROVE last'[i] = last[i]
  BY <1>4, MoveFacts DEF SendsFacts, fileVars
<1>5. ASSUME NEW r \in Requests, NEW j \in Writers,
             WriteStep(r, j) \/ RemoveStep(r, j) \/ OpenReadStep(r, j) \/ ReadStep(r, j)
      PROVE  last'[i] = last[i]
  BY <1>5 DEF WriteStep, RemoveStep, OpenReadStep, ReadStep, fileVars
<1>6. ASSUME NEW r \in Requests, NEW j \in Writers, OpenStep(r, j), i # j PROVE last'[i] = last[i]
  BY <1>6 DEF OpenStep
<1>7. ASSUME NEW e \in Edits, NEW f \in Files, NEW j \in Writers, EditStep(e, f, j), i # j
      PROVE  last'[i] = last[i]
  BY <1>7 DEF EditStep
<1> QED  BY StepCases, <1>1, <1>2, <1>3, <1>4, <1>5, <1>6, <1>7 DEF Cases

(* An inode keeps its path, and stays in use. *)
LEMMA InodeStays ==
  ASSUME TypeOK, LinkInv, LastInv, RequestInv, Next, NEW i \in Writers, last[i] # None
  PROVE  last'[i] # None /\ file'[i] = file[i]
<1> DEFINE Goal == last'[i] # None /\ file'[i] = file[i]
<1>1. ASSUME NEW r \in Requests, SendsFacts(r) PROVE Goal
  <2>1. i # r
    BY <1>1, Unused DEF SendsFacts
  <2> QED  BY <1>1, <2>1 DEF SendsFacts
<1>2. ASSUME NEW r \in Requests, Moves(r) PROVE Goal
  BY <1>2, MoveFacts DEF fileVars
<1>3. ASSUME NEW r \in Requests, NEW j \in Writers, OpenStep(r, j) PROVE Goal
  BY <1>3, FilesAssumption DEF OpenStep, Writers
<1>4. ASSUME NEW r \in Requests, NEW j \in Writers,
             WriteStep(r, j) \/ RemoveStep(r, j) \/ OpenReadStep(r, j) \/ ReadStep(r, j)
      PROVE  Goal
  BY <1>4 DEF WriteStep, RemoveStep, OpenReadStep, ReadStep, fileVars
<1>5. ASSUME NEW e \in Edits, NEW f \in Files, NEW j \in Writers, EditStep(e, f, j) PROVE Goal
  <2>1. i # e /\ e # None
    BY <1>5, Unused, FilesAssumption DEF EditStep, Writers
  <2> QED  BY <1>5, <2>1 DEF EditStep
<1> QED  BY StepCases, <1>1, <1>2, <1>3, <1>4, <1>5 DEF Cases

(* What RequestInv says of one request. *)
Req(r) ==
  /\ pc[r] = "idle" => file[r] = None /\ seen[r] = {} /\ kind[r] = "read"
  /\ pc[r] \in {"idle", "check", "open", "unlink", "stat", "openread"} =>
       handle[r] = None /\ pos[r] = 0 /\ got[r] = <<>> /\ last[r] = None
  /\ pc[r] \in {"check", "open", "write", "unlink", "stat", "openread", "read"} => file[r] \in Files
  /\ pc[r] \in {"write", "read"} \/ Saved(r) => handle[r] # None
  /\ handle[r] # None => last[handle[r]] # None /\ file[handle[r]] = file[r]
  /\ pc[r] \in {"check", "open", "write"} => kind[r] \in {"create", "update"}
  /\ pc[r] \in {"stat", "openread", "read"} => kind[r] = "read"
  /\ pc[r] = "unlink" => kind[r] = "delete"

LEMMA Others ==
  ASSUME TypeOK, LinkInv, LastInv, RequestInv, Next, NEW q \in Requests,
         pc'[q] = pc[q], kind'[q] = kind[q], file'[q] = file[q], handle'[q] = handle[q],
         pos'[q] = pos[q], got'[q] = got[q], seen'[q] = seen[q],
         last[q] = None => last'[q] = None
  PROVE  Req(q)'
<1>1. Req(q)
  BY DEF RequestInv, Req
<1>2. handle[q] # None => last'[handle[q]] # None /\ file'[handle[q]] = file[handle[q]]
  <2>1. handle[q] # None => handle[q] \in Writers /\ last[handle[q]] # None
    BY <1>1 DEF Req, TypeOK
  <2> QED  BY <2>1, InodeStays
<1> QED  BY <1>1, <1>2 DEF Req, Saved

LEMMA StepRequests == ASSUME TypeOK, LinkInv, LastInv, RequestInv, Next PROVE RequestInv'
<1> SUFFICES ASSUME NEW q \in Requests PROVE Req(q)'
  BY DEF RequestInv, Req
<1>0. Req(q) /\ q \in Writers
  BY DEF RequestInv, Req, Writers
<1>a. handle[q] # None => last'[handle[q]] # None /\ file'[handle[q]] = file[handle[q]]
  <2>1. handle[q] # None => handle[q] \in Writers /\ last[handle[q]] # None
    BY <1>0 DEF Req, TypeOK
  <2> QED  BY <2>1, InodeStays
<1>1. ASSUME NEW r \in Requests, SendsFacts(r) PROVE Req(q)'
  <2>1. CASE q = r
    BY <1>0, <1>1, <2>1 DEF SendsFacts, Req, Saved
  <2>2. CASE q # r
    <3>1. UNCHANGED <<last, handle, pos, got, seen>>
      BY <1>1 DEF SendsFacts
    <3>2. pc'[q] = pc[q] /\ kind'[q] = kind[q] /\ file'[q] = file[q]
      BY <1>0, <1>1, <2>2 DEF SendsFacts
    <3> QED  BY <3>1, <3>2, Others
  <2> QED  BY <2>1, <2>2
<1>2. ASSUME NEW r \in Requests, Moves(r) PROVE Req(q)'
  <2>1. /\ UNCHANGED <<last, kind, file, handle, pos, got>>
        /\ q # r => pc'[q] = pc[q] /\ seen'[q] = seen[q]
    BY <1>2, MoveFacts DEF fileVars
  <2>2. CASE q = r
    <3>1. \/ pc[r] = "check" /\ pc'[r] = "open"
          \/ pc[r] = "stat" /\ pc'[r] = "openread"
          \/ pc'[r] \in {"refused", "error"}
          \/ pc'[r] = "ok" /\ (pc[r] = "write" \/ kind[r] = "read")
      <4>1. pc[r] = "read" => kind[r] = "read"
        BY <1>0, <2>2 DEF Req
      <4> QED  BY <1>2, <4>1, MoveFacts
    <3>2. Req(q)
      BY <1>0
    <3> QED  BY <1>a, <2>1, <2>2, <3>1, <3>2 DEF Req, Saved
  <2>3. CASE q # r
    BY <2>1, <2>3, Others
  <2> QED  BY <2>2, <2>3
<1>3. ASSUME NEW r \in Requests, NEW i \in Writers, OpenStep(r, i) PROVE Req(q)'
  <2>1. CASE q = r
    <3>1. handle'[q] = i /\ last'[i] = r /\ r # None /\ i # None /\ pc'[q] = "write"
      BY <1>3, <2>1, FilesAssumption DEF OpenStep, Writers
    <3>2. file'[i] = file'[q]
      BY <1>0, <1>3, <2>1 DEF OpenStep, Req, LinkInv, Inode
    <3> QED  BY <1>0, <1>3, <2>1, <3>1, <3>2 DEF Req, Saved, OpenStep
  <2>2. CASE q # r
    <3>1. last[q] = None => q # i
      BY <1>3, <2>2, Unused DEF OpenStep, Inode, RequestInv
    <3>2. last[q] = None => last'[q] = None
      BY <1>0, <1>3, <3>1 DEF OpenStep
    <3>3. pc'[q] = pc[q] /\ handle'[q] = handle[q] /\ UNCHANGED <<kind, file, pos, got, seen>>
      BY <1>3, <2>2 DEF OpenStep
    <3> QED  BY <3>2, <3>3, Others
  <2> QED  BY <2>1, <2>2
<1>4. ASSUME NEW r \in Requests, NEW i \in Writers, WriteStep(r, i) PROVE Req(q)'
  <2>1. CASE q = r
    BY <1>0, <1>4, <1>a, <2>1 DEF WriteStep, Req, Saved
  <2>2. CASE q # r
    BY <1>4, <2>2, Others DEF WriteStep
  <2> QED  BY <2>1, <2>2
<1>5. ASSUME NEW r \in Requests, NEW i \in Writers, RemoveStep(r, i) PROVE Req(q)'
  <2>1. CASE q = r
    BY <1>0, <1>5, <1>a, <2>1 DEF RemoveStep, Req, Saved
  <2>2. CASE q # r
    BY <1>5, <2>2, Others DEF RemoveStep
  <2> QED  BY <2>1, <2>2
<1>6. ASSUME NEW r \in Requests, NEW i \in Writers, OpenReadStep(r, i) PROVE Req(q)'
  <2>1. CASE q = r
    <3>1. file[r] \in Files /\ tree[file[r]] = i /\ i # None
      BY <1>6, FilesAssumption DEF OpenReadStep
    <3>2. last[i] # None /\ file[i] = file[r]
      BY <3>1 DEF LinkInv
    <3>3. /\ pc[q] = "openread" /\ pc'[q] = "read" /\ handle'[q] = i
          /\ UNCHANGED <<last, kind, file>>
      BY <1>6, <2>1 DEF OpenReadStep, fileVars
    <3> QED  BY <1>0, <2>1, <3>1, <3>2, <3>3 DEF Req, Saved
  <2>2. CASE q # r
    BY <1>6, <2>2, Others DEF OpenReadStep, fileVars
  <2> QED  BY <2>1, <2>2
<1>7. ASSUME NEW r \in Requests, NEW i \in Writers, ReadStep(r, i) PROVE Req(q)'
  <2>1. CASE q = r
    BY <1>0, <1>7, <1>a, <2>1 DEF ReadStep, Req, Saved, fileVars
  <2>2. CASE q # r
    BY <1>7, <2>2, Others DEF ReadStep, fileVars
  <2> QED  BY <2>1, <2>2
<1>8. ASSUME NEW e \in Edits, NEW f \in Files, NEW i \in Writers, EditStep(e, f, i) PROVE Req(q)'
  <2>1. q # e
    BY FilesAssumption
  <2>2. last[q] = None => q # i
    <3>1. last[q] = None => tree[f] # q
      BY <1>0, Unused
    <3> QED  BY <1>8, <2>1, <3>1 DEF EditStep
  <2>3. last[q] = None => last'[q] = None
    BY <1>0, <1>8, <2>2 DEF EditStep
  <2>4. file'[q] = file[q] /\ UNCHANGED <<pc, kind, handle, pos, got, seen>>
    BY <1>0, <1>8, <2>1 DEF EditStep
  <2> QED  BY <2>3, <2>4, Others
<1> QED  BY StepCases, <1>1, <1>2, <1>3, <1>4, <1>5, <1>6, <1>7, <1>8 DEF Cases

LEMMA StepSeen == ASSUME TypeOK, LinkInv, LastInv, RequestInv, SeenInv, Next PROVE SeenInv'
<1> SUFFICES ASSUME NEW q \in Requests, NEW i \in seen'[q]
             PROVE  last'[i] # None /\ (file'[i] = file'[q] => i \in gone')
  BY DEF SeenInv
<1>0. q \in Writers
  BY DEF Writers
<1>1. ASSUME i \in seen[q], file'[q] = file[q], gone \subseteq gone'
      PROVE  last'[i] # None /\ (file'[i] = file'[q] => i \in gone')
  <2>1. i \in Writers /\ last[i] # None /\ (file[i] = file[q] => i \in gone)
    BY <1>1 DEF SeenInv, TypeOK
  <2> QED  BY <1>1, <2>1, InodeStays
<1>2. ASSUME NEW r \in Requests, SendsFacts(r)
      PROVE  last'[i] # None /\ (file'[i] = file'[q] => i \in gone')
  <2>1. q # r /\ i \in seen[q]
    BY <1>2 DEF SendsFacts, RequestInv
  <2>2. file'[q] = file[q] /\ gone' = gone
    BY <1>0, <1>2, <2>1 DEF SendsFacts
  <2> QED  BY <1>1, <2>1, <2>2
<1>3. ASSUME NEW r \in Requests, Moves(r)
      PROVE  last'[i] # None /\ (file'[i] = file'[q] => i \in gone')
  <2>1. UNCHANGED <<tree, last, gone, file>>
    BY <1>3, MoveFacts DEF fileVars
  <2>2. CASE i \in seen[q]
    BY <1>1, <2>1, <2>2
  <2>3. CASE i \notin seen[q]
    <3>1. /\ q = r /\ pc[r] = "check" /\ Inode(r) = None
          /\ seen' = [seen EXCEPT ![r] = {j \in Writers : last[j] # None}]
      BY <1>3, <2>3, MoveFacts
    <3>2. i \in Writers /\ last[i] # None
      BY <3>1 DEF TypeOK
    <3>3. file[i] = file[q] => i \in gone
      BY <3>1, <3>2, FilesAssumption DEF LinkInv, Inode
    <3> QED  BY <2>1, <3>2, <3>3
  <2> QED  BY <2>2, <2>3
<1>4. ASSUME NEW r \in Requests, NEW j \in Writers,
             \/ OpenStep(r, j) \/ WriteStep(r, j) \/ RemoveStep(r, j)
             \/ OpenReadStep(r, j) \/ ReadStep(r, j)
      PROVE  last'[i] # None /\ (file'[i] = file'[q] => i \in gone')
  <2>1. seen' = seen /\ file' = file /\ gone \subseteq gone'
    BY <1>4 DEF OpenStep, WriteStep, RemoveStep, OpenReadStep, ReadStep, fileVars
  <2> QED  BY <1>1, <2>1
<1>5. ASSUME NEW e \in Edits, NEW f \in Files, NEW j \in Writers, EditStep(e, f, j)
      PROVE  last'[i] # None /\ (file'[i] = file'[q] => i \in gone')
  <2>1. seen' = seen /\ file'[q] = file[q] /\ gone \subseteq gone'
    BY <1>0, <1>5, FilesAssumption DEF EditStep
  <2> QED  BY <1>1, <2>1
<1> QED  BY StepCases, <1>2, <1>3, <1>4, <1>5 DEF Cases

-----------------------------------------------------------------------------
(* What ContentInv says of one inode. *)
ContentOf(i) ==
  /\ \A q \in Requests : pc[q] = "write" /\ handle[q] = i =>
       last[i] = q /\ pos[q] <= size[q] /\ data[i] = [b \in 1 .. pos[q] |-> q]
  /\ Settled(i) => data[i] = Whole(last[i])

(* An inode that a step neither truncates nor writes. *)
LEMMA Untouched ==
  ASSUME TypeOK, LastInv, RequestInv, ContentInv, Next,
         NEW i \in Writers, last[i] # None, i \notin mixed,
         last'[i] = last[i], data'[i] = data[i],
         \A q \in Requests : pc'[q] = "write" /\ handle'[q] = i =>
           pc[q] = "write" /\ handle[q] = i /\ pos'[q] = pos[q] /\ size'[q] = size[q],
         \A q \in Requests : pc'[q] = "ok" /\ q = last[i] =>
           pc[q] = "ok" \/ (pc[q] = "write" /\ pos[q] = size[q])
  PROVE  ContentOf(i)'
<1>1. ContentOf(i)
  BY DEF ContentInv, ContentOf, Writing
<1>2. PICK w \in Writers : w = last[i]
  BY DEF TypeOK
<1>3. Fixed(w) /\ (w \in Requests => handle[w] = i)
  BY <1>2 DEF LastInv
<1>4. size'[w] = size[w]
  BY <1>3, FixedStays
<1>5. \A q \in Requests : pc'[q] = "write" /\ handle'[q] = i =>
        last'[i] = q /\ pos'[q] <= size'[q] /\ data'[i] = [b \in 1 .. pos'[q] |-> q]
  BY <1>1 DEF ContentOf
<1>6. ASSUME Settled(i)' PROVE data'[i] = [b \in 1 .. size[w] |-> w]
  <2>1. CASE w \in Edits
    BY <1>1, <1>2, <2>1 DEF ContentOf, Settled, Whole
  <2>2. CASE w \in Requests /\ pc[w] = "ok"
    BY <1>1, <1>2, <2>2 DEF ContentOf, Settled, Whole
  <2>3. CASE w \in Requests /\ w \notin Edits /\ pc[w] # "ok"
    <3>1. pc'[w] = "ok"
      BY <1>2, <1>6, <2>3 DEF Settled
    <3>2. pc[w] = "write" /\ pos[w] = size[w]
      BY <1>2, <2>3, <3>1
    <3>3. data[i] = [b \in 1 .. pos[w] |-> w]
      BY <1>1, <1>3, <2>3, <3>2 DEF ContentOf
    <3> QED  BY <3>2, <3>3
  <2> QED  BY <2>1, <2>2, <2>3, FilesAssumption DEF Writers
<1>7. (Whole(last[i]))' = [b \in 1 .. size[w] |-> w]
  BY <1>2, <1>4 DEF Whole
<1> QED  BY <1>5, <1>6, <1>7 DEF ContentOf

LEMMA OneBlock ==
  ASSUME NEW w PROVE <<w>> = [b \in 1 .. 1 |-> w]
OBVIOUS

LEMMA NoBlock ==
  ASSUME NEW w PROVE <<>> = [b \in 1 .. 0 |-> w]
OBVIOUS

LEMMA StepContent ==
  ASSUME TypeOK, LinkInv, LastInv, RequestInv, ContentInv, Next PROVE ContentInv'
<1> SUFFICES ASSUME NEW i \in Writers, last'[i] # None, i \notin mixed'
             PROVE  ContentOf(i)'
  BY DEF ContentInv, ContentOf, Writing
<1>1. ASSUME NEW r \in Requests, SendsFacts(r) PROVE ContentOf(i)'
  <2>1. last[i] # None /\ i \notin mixed /\ last'[i] = last[i] /\ data'[i] = data[i]
    BY <1>1 DEF SendsFacts
  <2>2. \A q \in Requests : pc'[q] \in {"write", "ok"} => q # r /\ pc'[q] = pc[q]
    BY <1>1 DEF SendsFacts
  <2>3. \A q \in Requests : q # r => size'[q] = size[q]
    BY <1>1 DEF SendsFacts, Writers
  <2>4. handle' = handle /\ pos' = pos
    BY <1>1 DEF SendsFacts
  <2> QED  BY <2>1, <2>2, <2>3, <2>4, Untouched
<1>2. ASSUME NEW r \in Requests, Moves(r) PROVE ContentOf(i)'
  <2>1. UNCHANGED <<data, last, mixed, handle, pos, size>>
    BY <1>2, MoveFacts DEF fileVars
  <2>2. \A q \in Requests : pc'[q] = "write" => pc[q] = "write"
    BY <1>2, MoveFacts
  <2>3. \A q \in Requests : pc'[q] = "ok" =>
          pc[q] = "ok" \/ (pc[q] = "write" /\ pos[q] = size[q]) \/ pc[q] = "read"
    BY <1>2, MoveFacts
  <2>4. \A q \in Requests : q = last[i] => pc[q] # "read"
    <3>1. last[i] \in Requests => Fixed(last[i])
      BY <2>1 DEF LastInv
    <3> QED  BY <3>1, FilesAssumption DEF Fixed
  <2> QED  BY <2>1, <2>2, <2>3, <2>4, Untouched
<1>3. ASSUME NEW r \in Requests, NEW j \in Writers, OpenStep(r, j) PROVE ContentOf(i)'
  <2>1. CASE i = j
    <3>1. Writing(i) = {}
      BY <1>3, <2>1 DEF OpenStep
    <3>2. \A q \in Requests : pc'[q] = "write" /\ handle'[q] = i => q = r
      BY <1>3, <3>1 DEF OpenStep, Writing
    <3>3. pos'[r] = 0 /\ size'[r] \in Nat /\ last'[i] = r /\ data'[i] = <<>> /\ pc'[r] = "write"
      BY <1>3, <2>1 DEF OpenStep, RequestInv, TypeOK, Writers
    <3>4. data'[i] = [b \in 1 .. pos'[r] |-> r] /\ pos'[r] <= size'[r]
      BY <3>3, NoBlock
    <3>5. ~ Settled(i)'
      BY <3>3, FilesAssumption DEF Settled
    <3> QED  BY <3>2, <3>3, <3>4, <3>5 DEF ContentOf
  <2>2. CASE i # j
    <3>1. last'[i] = last[i] /\ data'[i] = data[i] /\ i \notin mixed
      BY <1>3, <2>2 DEF OpenStep
    <3>2. \A q \in Requests : pc'[q] = "write" /\ handle'[q] = i => q # r
      BY <1>3, <2>2 DEF OpenStep
    <3>3. \A q \in Requests : q # r => pc'[q] = pc[q] /\ handle'[q] = handle[q]
      BY <1>3 DEF OpenStep
    <3>4. pos' = pos /\ size' = size /\ pc'[r] = "write"
      BY <1>3 DEF OpenStep
    <3> QED  BY <3>1, <3>2, <3>3, <3>4, Untouched
  <2> QED  BY <2>1, <2>2
<1>4. ASSUME NEW r \in Requests, NEW j \in Writers, WriteStep(r, j) PROVE ContentOf(i)'
  <2>0. /\ UNCHANGED <<last, mixed, pc, size, handle>>
        /\ pc[r] = "write" /\ handle[r] = j /\ pos[r] < size[r] /\ pos'[r] = pos[r] + 1
        /\ \A q \in Requests : q # r => pos'[q] = pos[q]
    BY <1>4 DEF WriteStep
  <2>1. CASE i = j
    <3>1. ContentOf(i)
      BY <2>0 DEF ContentInv, ContentOf, Writing
    <3>2. last[i] = r /\ data[i] = [b \in 1 .. pos[r] |-> r]
      BY <2>0, <2>1, <3>1 DEF ContentOf
    <3>3. \A q \in Requests : pc[q] = "write" /\ handle[q] = i => q = r
      BY <3>1, <3>2 DEF ContentOf
    <3>4. r \in Writers /\ pos[r] \in Nat /\ size[r] \in Nat
      BY DEF Writers, TypeOK
    <3>5. data'[i] = [b \in 1 .. pos[r] + 1 |-> r]
      <4>1. data'[i] = Put(data[i], pos[r] + 1, r)
        BY <1>4, <2>1 DEF WriteStep
      <4>2. Put([b \in 1 .. pos[r] |-> r], pos[r] + 1, r) = [b \in 1 .. pos[r] + 1 |-> r]
        BY <3>4, PutNext
      <4> QED  BY <3>2, <4>1, <4>2, Zenon
    <3>6. ~ Settled(i)'
      BY <2>0, <3>2, FilesAssumption DEF Settled
    <3>7. pos[r] + 1 <= size[r]
      BY <2>0, <3>4
    <3>8. /\ \A q \in Requests : pc'[q] = "write" /\ handle'[q] = i => q = r
          /\ last'[i] = r /\ pos'[r] <= size'[r] /\ data'[i] = [b \in 1 .. pos'[r] |-> r]
      BY <2>0, <3>2, <3>3, <3>5, <3>7
    <3> QED  BY <3>6, <3>8 DEF ContentOf
  <2>2. CASE i # j
    <3>1. data'[i] = data[i]
      BY <1>4, <2>2 DEF WriteStep
    <3>2. \A q \in Requests : handle[q] = i => q # r
      BY <2>0, <2>2
    <3> QED  BY <2>0, <3>1, <3>2, Untouched
  <2> QED  BY <2>1, <2>2
<1>5. ASSUME NEW r \in Requests, NEW j \in Writers, RemoveStep(r, j) PROVE ContentOf(i)'
  <2>1. UNCHANGED <<data, last, mixed, size, handle, pos>>
    BY <1>5 DEF RemoveStep
  <2>2. \A q \in Requests : pc'[q] = "write" => pc[q] = "write"
    BY <1>5 DEF RemoveStep
  <2>3. \A q \in Requests : q = last[i] /\ pc'[q] = "ok" => pc[q] = "ok"
    <3>1. last[i] # r
      BY <1>5, Unused DEF RemoveStep
    <3> QED  BY <1>5, <3>1 DEF RemoveStep
  <2> QED  BY <2>1, <2>2, <2>3, Untouched
<1>6. ASSUME NEW r \in Requests, NEW j \in Writers, OpenReadStep(r, j) PROVE ContentOf(i)'
  <2>1. UNCHANGED <<data, last, mixed, pos>>
    BY <1>6 DEF OpenReadStep, fileVars
  <2>2. \A q \in Requests : pc'[q] \in {"write", "ok"} =>
          q # r /\ pc'[q] = pc[q] /\ handle'[q] = handle[q] /\ size'[q] = size[q]
    BY <1>6 DEF OpenReadStep, Writers
  <2> QED  BY <2>1, <2>2, Untouched
<1>7. ASSUME NEW r \in Requests, NEW j \in Writers, ReadStep(r, j) PROVE ContentOf(i)'
  <2>1. UNCHANGED <<data, last, mixed, handle, pc, size>>
    BY <1>7 DEF ReadStep, fileVars
  <2>2. \A q \in Requests : pc'[q] = "write" => pos'[q] = pos[q]
    BY <1>7 DEF ReadStep
  <2> QED  BY <2>1, <2>2, Untouched
<1>8. ASSUME NEW e \in Edits, NEW f \in Files, NEW j \in Writers, EditStep(e, f, j) PROVE ContentOf(i)'
  <2>0. UNCHANGED <<pc, kind, handle, pos, got, seen>> /\ \A q \in Requests : size'[q] = size[q]
    BY <1>8, FilesAssumption DEF EditStep, Writers
  <2>1. CASE i = j
    <3>1. Writing(i) = {} /\ last'[i] = e /\ data'[i] = <<e>> /\ size'[e] = 1
      BY <1>8, <2>1 DEF EditStep
    <3>2. \A q \in Requests : ~ (pc'[q] = "write" /\ handle'[q] = i)
      BY <2>0, <3>1 DEF Writing
    <3>3. (Whole(last[i]))' = [b \in 1 .. 1 |-> e]
      BY <3>1 DEF Whole
    <3>4. data'[i] = (Whole(last[i]))'
      BY <3>1, <3>3, OneBlock
    <3> QED  BY <3>2, <3>4 DEF ContentOf
  <2>2. CASE i # j
    <3>1. last'[i] = last[i] /\ data'[i] = data[i] /\ i \notin mixed
      BY <1>8, <2>2 DEF EditStep
    <3> QED  BY <2>0, <3>1, Untouched
  <2> QED  BY <2>1, <2>2
<1> QED  BY StepCases, <1>1, <1>2, <1>3, <1>4, <1>5, <1>6, <1>7, <1>8 DEF Cases

-----------------------------------------------------------------------------
(* What ReadInv says of one request. *)
ReadOf(q) ==
  kind[q] = "read" /\ q \notin blurred =>
    /\ pc[q] = "read" =>
         /\ Settled(handle[q])
         /\ size[q] = size[last[handle[q]]] /\ pos[q] <= size[q]
         /\ got[q] = [b \in 1 .. pos[q] |-> last[handle[q]]]
    /\ pc[q] = "ok" => \E w \in Writers : Fixed(w) /\ got[q] = Whole(w)

(* The writer whose content a read that met nobody is reading. *)
LEMMA ReaderOf ==
  ASSUME TypeOK, LastInv, RequestInv, ContentInv, ReadInv, NEW q \in Requests,
         pc[q] = "read", q \notin blurred
  PROVE  \E w \in Writers :
           /\ w = last[handle[q]] /\ Fixed(w) /\ handle[q] \in Writers
           /\ data[handle[q]] = Whole(w) /\ Len(data[handle[q]]) = size[w]
           /\ handle[q] \notin mixed /\ (w \in Edits \/ (w \in Requests /\ pc[w] = "ok"))
           /\ size[q] = size[w] /\ pos[q] <= size[q] /\ size[w] \in Nat
           /\ got[q] = [b \in 1 .. pos[q] |-> w]
<1>1. kind[q] = "read" /\ handle[q] \in Writers /\ last[handle[q]] # None
  BY DEF RequestInv, TypeOK
<1>2. PICK w \in Writers : w = last[handle[q]]
  BY <1>1 DEF TypeOK
<1>3. ReadOf(q)
  BY DEF ReadInv, ReadOf
<1>4. Settled(handle[q]) /\ size[q] = size[w] /\ pos[q] <= size[q] /\ got[q] = [b \in 1 .. pos[q] |-> w]
  BY <1>1, <1>2, <1>3 DEF ReadOf
<1>5. handle[q] \notin mixed /\ (w \in Edits \/ (w \in Requests /\ pc[w] = "ok"))
  BY <1>2, <1>4 DEF Settled
<1>6. data[handle[q]] = Whole(w)
  BY <1>1, <1>2, <1>4, <1>5 DEF ContentInv
<1>7. size[w] \in Nat
  BY DEF TypeOK
<1>8. Len(data[handle[q]]) = size[w]
  BY <1>6, <1>7, WholeSeq DEF Whole
<1>9. Fixed(w)
  BY <1>1, <1>2 DEF LastInv
<1> QED  BY <1>1, <1>2, <1>4, <1>5, <1>6, <1>7, <1>8, <1>9

(* A read that is over, or goes on while nobody touches its inode. *)
LEMMA ReadStays ==
  ASSUME TypeOK, LinkInv, LastInv, RequestInv, ContentInv, ReadInv, Next,
         NEW q \in Requests, pc'[q] = pc[q], kind'[q] = kind[q], handle'[q] = handle[q],
         pos'[q] = pos[q], got'[q] = got[q], blurred \subseteq blurred',
         pc[q] = "read" => size'[q] = size[q],
         \A i \in Writers : i = handle[q] /\ q \notin blurred' /\ pc[q] = "read" =>
           last'[i] = last[i] /\ (i \in mixed' => i \in mixed),
         \A r \in Requests : pc[r] = "ok" => pc'[r] = "ok"
  PROVE  ReadOf(q)'
<1> SUFFICES ASSUME kind'[q] = "read", q \notin blurred'
             PROVE  /\ pc'[q] = "read" =>
                         /\ Settled(handle[q])'
                         /\ size'[q] = size'[last'[handle'[q]]] /\ pos'[q] <= size'[q]
                         /\ got'[q] = [b \in 1 .. pos'[q] |-> last'[handle'[q]]]
                    /\ pc'[q] = "ok" => \E w \in Writers : Fixed(w)' /\ got'[q] = Whole(w)'
  BY DEF ReadOf
<1>1. ASSUME pc'[q] = "read"
      PROVE  /\ Settled(handle[q])'
             /\ size'[q] = size'[last'[handle'[q]]] /\ pos'[q] <= size'[q]
             /\ got'[q] = [b \in 1 .. pos'[q] |-> last'[handle'[q]]]
  <2>1. PICK w \in Writers :
           /\ w = last[handle[q]] /\ Fixed(w) /\ handle[q] \in Writers
           /\ handle[q] \notin mixed /\ (w \in Edits \/ (w \in Requests /\ pc[w] = "ok"))
           /\ size[q] = size[w] /\ pos[q] <= size[q]
           /\ got[q] = [b \in 1 .. pos[q] |-> w]
    BY <1>1, ReaderOf
  <2>2. size'[w] = size[w]
    BY <2>1, FixedStays
  <2>3. last'[handle'[q]] = w /\ handle'[q] \notin mixed'
    BY <1>1, <2>1
  <2>4. Settled(handle[q])'
    BY <2>1, <2>3 DEF Settled
  <2> QED  BY <1>1, <2>1, <2>2, <2>3, <2>4
<1>2. ASSUME pc'[q] = "ok" PROVE \E w \in Writers : Fixed(w)' /\ got'[q] = Whole(w)'
  <2>1. PICK w \in Writers : Fixed(w) /\ got[q] = Whole(w)
    BY <1>2 DEF ReadInv
  <2>2. Fixed(w)' /\ size'[w] = size[w]
    BY <2>1, FixedStays
  <2>3. Whole(w)' = Whole(w)
    BY <2>2 DEF Whole
  <2> QED  BY <2>1, <2>2, <2>3
<1> QED  BY <1>1, <1>2

LEMMA StepReads ==
  ASSUME TypeOK, LinkInv, LastInv, RequestInv, ContentInv, ReadInv, Next PROVE ReadInv'
<1> SUFFICES ASSUME NEW q \in Requests PROVE ReadOf(q)'
  BY DEF ReadInv, ReadOf
<1>1. ASSUME NEW r \in Requests, SendsFacts(r) PROVE ReadOf(q)'
  <2>1. CASE q = r
    BY <1>1, <2>1 DEF SendsFacts, ReadOf
  <2>2. CASE q # r
    <3>1. q \in Writers
      BY DEF Writers
    <3>2. /\ pc'[q] = pc[q] /\ kind'[q] = kind[q] /\ size'[q] = size[q]
          /\ UNCHANGED <<last, mixed, handle, pos, got, blurred>>
          /\ \A p \in Requests : pc[p] = "ok" => pc'[p] = "ok"
      BY <1>1, <2>2, <3>1 DEF SendsFacts
    <3> QED  BY <3>2, ReadStays
  <2> QED  BY <2>1, <2>2
<1>2. ASSUME NEW r \in Requests, Moves(r) PROVE ReadOf(q)'
  <2>1. UNCHANGED <<data, last, mixed, kind, size, handle, pos, got, blurred, file>>
    BY <1>2, MoveFacts DEF fileVars
  <2>2. \A p \in Requests : pc[p] = "ok" => pc'[p] = "ok"
    BY <1>2, MoveFacts
  <2>3. CASE q # r
    <3>1. pc'[q] = pc[q]
      BY <1>2, <2>3, MoveFacts
    <3> QED  BY <2>1, <2>2, <3>1, ReadStays
  <2>4. CASE q = r /\ pc[q] # "read"
    <3>1. pc'[q] # "read"
      BY <1>2, <2>4, MoveFacts
    <3>2. pc'[q] = "ok" => kind[q] # "read"
      BY <1>2, <2>4, MoveFacts DEF RequestInv
    <3> QED  BY <2>1, <3>1, <3>2 DEF ReadOf
  <2>5. CASE q = r /\ pc[q] = "read"
    <3>1. /\ pc'[q] = "ok"
          /\ pos[q] >= Len(data[handle[q]]) \/ (size[q] > 0 /\ pos[q] = size[q])
      BY <1>2, <2>5, MoveFacts
    <3>2. ASSUME q \notin blurred PROVE \E w \in Writers : Fixed(w)' /\ got'[q] = Whole(w)'
      <4>1. PICK w \in Writers :
               /\ Fixed(w) /\ Len(data[handle[q]]) = size[w]
               /\ size[q] = size[w] /\ pos[q] <= size[q] /\ size[w] \in Nat
               /\ got[q] = [b \in 1 .. pos[q] |-> w]
        BY <2>5, <3>2, ReaderOf
      <4>2. pos[q] \in Nat
        BY DEF TypeOK
      <4>3. pos[q] = size[w]
        BY <3>1, <4>1, <4>2
      <4>4. got'[q] = [b \in 1 .. size[w] |-> w]
        BY <2>1, <4>1, <4>3
      <4>5. Fixed(w)' /\ size'[w] = size[w]
        BY <4>1, FixedStays
      <4> QED  BY <4>4, <4>5 DEF Whole
    <3> QED  BY <2>1, <3>1, <3>2 DEF ReadOf
  <2> QED  BY <2>3, <2>4, <2>5
<1>3. ASSUME NEW r \in Requests, NEW j \in Writers, OpenStep(r, j) PROVE ReadOf(q)'
  <2>1. CASE q = r
    BY <1>3, <2>1 DEF OpenStep, ReadOf
  <2>2. CASE q # r
    <3>1. /\ pc'[q] = pc[q] /\ handle'[q] = handle[q] /\ blurred \subseteq blurred'
          /\ UNCHANGED <<kind, size, pos, got>>
      BY <1>3, <2>2 DEF OpenStep
    <3>2. ASSUME NEW i \in Writers, i = handle[q], q \notin blurred', pc[q] = "read"
          PROVE  last'[i] = last[i] /\ (i \in mixed' => i \in mixed)
      <4>1. i # j
        BY <1>3, <3>2 DEF OpenStep, Reading
      <4> QED  BY <1>3, <4>1 DEF OpenStep
    <3>3. \A p \in Requests : pc[p] = "ok" => pc'[p] = "ok"
      BY <1>3 DEF OpenStep
    <3> QED  BY <3>1, <3>2, <3>3, ReadStays
  <2> QED  BY <2>1, <2>2
<1>4. ASSUME NEW r \in Requests, NEW j \in Writers, WriteStep(r, j) PROVE ReadOf(q)'
  <2>1. CASE q = r
    BY <1>4, <2>1 DEF WriteStep, ReadOf
  <2>2. CASE q # r
    <3>1. /\ pos'[q] = pos[q] /\ blurred \subseteq blurred'
          /\ UNCHANGED <<pc, last, mixed, handle, kind, size, got>>
      BY <1>4, <2>2 DEF WriteStep
    <3> QED  BY <3>1, ReadStays
  <2> QED  BY <2>1, <2>2
<1>5. ASSUME NEW r \in Requests, NEW j \in Writers, RemoveStep(r, j) PROVE ReadOf(q)'
  <2>1. CASE q = r
    BY <1>5, <2>1 DEF RemoveStep, ReadOf, RequestInv
  <2>2. CASE q # r
    <3>1. /\ pc'[q] = pc[q]
          /\ UNCHANGED <<last, mixed, handle, kind, size, pos, got, blurred>>
          /\ \A p \in Requests : pc[p] = "ok" => pc'[p] = "ok"
      BY <1>5, <2>2 DEF RemoveStep
    <3> QED  BY <3>1, ReadStays
  <2> QED  BY <2>1, <2>2
<1>6. ASSUME NEW r \in Requests, NEW j \in Writers, OpenReadStep(r, j) PROVE ReadOf(q)'
  <2>1. CASE q = r
    <3>1. /\ pc[q] = "openread" /\ pc'[q] = "read" /\ file[q] \in Files /\ j = tree[file[q]]
          /\ handle'[q] = j /\ size'[q] = Len(data[j])
          /\ \A w \in Writers : w # q => size'[w] = size[w]
          /\ blurred' = IF Settled(j) THEN blurred ELSE blurred \cup {q}
          /\ \A p \in Requests : p # q => pc'[p] = pc[p]
          /\ UNCHANGED <<data, last, mixed, pos, got, kind>>
      BY <1>6, <2>1 DEF OpenReadStep, fileVars
    <3>2. ASSUME q \notin blurred'
          PROVE  /\ Settled(j)'
                 /\ size'[q] = size'[last'[j]] /\ pos'[q] <= size'[q]
                 /\ got'[q] = [b \in 1 .. pos'[q] |-> last'[j]]
      <4>1. Settled(j) /\ last[j] # None
        BY <3>1, <3>2, FilesAssumption DEF LinkInv
      <4>2. PICK w \in Writers : w = last[j]
        BY <4>1 DEF TypeOK
      <4>3. w # q
        BY <3>1, <4>2, Unused
      <4>4. data[j] = Whole(w) /\ size[w] \in Nat
        BY <4>1, <4>2 DEF ContentInv, Settled, TypeOK
      <4>5. Len(data[j]) = size[w]
        BY <4>4, WholeSeq DEF Whole
      <4>6. size'[q] = size'[w] /\ size'[q] \in Nat
        BY <3>1, <4>3, <4>4, <4>5
      <4>7. pos[q] = 0 /\ got[q] = <<>>
        BY <3>1 DEF RequestInv
      <4>8. got'[q] = [b \in 1 .. pos'[q] |-> w] /\ pos'[q] <= size'[q]
        BY <3>1, <4>6, <4>7, NoBlock
      <4>9. Settled(j)'
        BY <3>1, <4>1, <4>2, <4>3 DEF Settled
      <4> QED  BY <3>1, <4>2, <4>6, <4>8, <4>9
    <3> QED  BY <3>1, <3>2 DEF ReadOf
  <2>2. CASE q # r
    <3>1. /\ pc'[q] = pc[q] /\ handle'[q] = handle[q] /\ size'[q] = size[q]
          /\ blurred \subseteq blurred'
          /\ UNCHANGED <<last, mixed, kind, pos, got>>
          /\ \A p \in Requests : pc[p] = "ok" => pc'[p] = "ok"
      BY <1>6, <2>2 DEF OpenReadStep, fileVars, Writers
    <3> QED  BY <3>1, ReadStays
  <2> QED  BY <2>1, <2>2
<1>7. ASSUME NEW r \in Requests, NEW j \in Writers, ReadStep(r, j) PROVE ReadOf(q)'
  <2>0. UNCHANGED <<data, last, mixed, pc, kind, file, size, handle, blurred>>
    BY <1>7 DEF ReadStep, fileVars
  <2>1. CASE q = r
    <3>1. /\ pc[q] = "read" /\ j = handle[q] /\ pos[q] < Len(data[j])
          /\ got'[q] = Append(got[q], data[j][pos[q] + 1]) /\ pos'[q] = pos[q] + 1
      BY <1>7, <2>1 DEF ReadStep
    <3>2. ASSUME q \notin blurred
          PROVE  /\ Settled(j)
                 /\ size[q] = size[last[j]] /\ pos'[q] <= size[q]
                 /\ got'[q] = [b \in 1 .. pos'[q] |-> last[j]]
      <4>1. PICK w \in Writers :
               /\ w = last[j] /\ data[j] = Whole(w) /\ Len(data[j]) = size[w]
               /\ j \notin mixed /\ (w \in Edits \/ (w \in Requests /\ pc[w] = "ok"))
               /\ size[q] = size[w] /\ pos[q] <= size[q] /\ size[w] \in Nat
               /\ got[q] = [b \in 1 .. pos[q] |-> w]
        BY <3>1, <3>2, ReaderOf
      <4>2. pos[q] \in Nat
        BY DEF TypeOK
      <4>3. pos[q] + 1 <= size[w]
        BY <3>1, <4>1, <4>2
      <4>4. data[j][pos[q] + 1] = w
        BY <4>1, <4>2, <4>3 DEF Whole
      <4>5. got'[q] = [b \in 1 .. pos[q] + 1 |-> w]
        <5>1. got'[q] = Append([b \in 1 .. pos[q] |-> w], w)
          BY <3>1, <4>1, <4>4
        <5>2. Append([b \in 1 .. pos[q] |-> w], w) = [b \in 1 .. pos[q] + 1 |-> w]
          BY <4>2, AppendNext
        <5> QED  BY <5>1, <5>2, Zenon
      <4>6. Settled(j)
        BY <4>1 DEF Settled
      <4> QED  BY <3>1, <4>1, <4>3, <4>5, <4>6
    <3>3. Settled(j)' <=> Settled(j)
      BY <2>0 DEF Settled
    <3> QED  BY <2>0, <3>1, <3>2, <3>3 DEF ReadOf
  <2>2. CASE q # r
    <3>1. got'[q] = got[q] /\ pos'[q] = pos[q]
      BY <1>7, <2>2 DEF ReadStep
    <3> QED  BY <2>0, <3>1, ReadStays
  <2> QED  BY <2>1, <2>2
<1>8. ASSUME NEW e \in Edits, NEW f \in Files, NEW j \in Writers, EditStep(e, f, j) PROVE ReadOf(q)'
  <2>1. /\ UNCHANGED <<pc, kind, handle, pos, got>> /\ blurred \subseteq blurred'
        /\ size'[q] = size[q]
    BY <1>8, FilesAssumption DEF EditStep, Writers
  <2>2. ASSUME NEW i \in Writers, i = handle[q], q \notin blurred', pc[q] = "read"
        PROVE  last'[i] = last[i] /\ (i \in mixed' => i \in mixed)
    <3>1. i # j
      BY <1>8, <2>2 DEF EditStep, Reading
    <3> QED  BY <1>8, <3>1 DEF EditStep
  <2> QED  BY <2>1, <2>2, ReadStays
<1> QED  BY StepCases, <1>1, <1>2, <1>3, <1>4, <1>5, <1>6, <1>7, <1>8 DEF Cases

-----------------------------------------------------------------------------
LEMMA InitInvariant == Init => IndInv
<1> SUFFICES ASSUME Init PROVE IndInv
  OBVIOUS
<1>1. TypeOK
  BY InitTypes
<1>2. LinkInv
  BY DEF Init, LinkInv
<1>3. LastInv /\ ContentInv /\ SeenInv
  BY DEF Init, LastInv, ContentInv, SeenInv
<1>4. RequestInv
  BY FilesAssumption DEF Init, RequestInv, Saved, Writers
<1>5. ReadInv
  BY DEF Init, ReadInv
<1> QED  BY <1>1, <1>2, <1>3, <1>4, <1>5 DEF IndInv

LEMMA StepInvariant == IndInv /\ [Next]_vars => IndInv'
<1> SUFFICES ASSUME IndInv, [Next]_vars PROVE IndInv'
  OBVIOUS
<1>1. CASE Next
  BY <1>1, StepTypes, StepLinks, StepLast, StepRequests, StepContent, StepSeen, StepReads DEF IndInv
<1>2. CASE UNCHANGED vars
  <2>1. UNCHANGED <<tree, data, last, mixed, gone, pc, kind, file, size, handle, pos, got, seen, blurred>>
    BY <1>2 DEF vars, fileVars, requestVars
  <2>2. TypeOK'
    BY <2>1 DEF IndInv, TypeOK
  <2>3. LinkInv' /\ SeenInv'
    BY <2>1 DEF IndInv, LinkInv, SeenInv
  <2>4. LastInv'
    BY <2>1 DEF IndInv, LastInv, Fixed
  <2>5. RequestInv'
    BY <2>1 DEF IndInv, RequestInv, Saved
  <2>6. ContentInv'
    BY <2>1 DEF IndInv, ContentInv, Settled, Whole, Writing
  <2>7. ReadInv'
    BY <2>1 DEF IndInv, ReadInv, Settled, Whole, Fixed
  <2> QED  BY <2>2, <2>3, <2>4, <2>5, <2>6, <2>7 DEF IndInv
<1> QED  BY <1>1, <1>2

(* The inductive invariant holds in every state, however the handlers of    *)
(* the file endpoints and the edits of the CLI interleave.                  *)
THEOREM FilesInductive == Spec => []IndInv
<1> QED  BY InitInvariant, StepInvariant, PTL DEF Spec

(* Every variable keeps its type. *)
THEOREM FilesTypes == Spec => []TypeOK
<1>1. IndInv => TypeOK
  BY DEF IndInv
<1> QED  BY <1>1, FilesInductive, PTL

(* A file that PUT or POST has answered with success is there, whole, until *)
(* somebody deletes, replaces or truncates it, unless writers overlapped.   *)
THEOREM SavedFilesStay == Spec => []SavedIsThere
<1>1. ASSUME IndInv PROVE SavedIsThere
  <2> SUFFICES ASSUME NEW r \in Requests, Saved(r), last[handle[r]] = r,
                      handle[r] \notin mixed \cup gone
               PROVE  tree[file[r]] = handle[r] /\ data[handle[r]] = Whole(r)
    BY DEF SavedIsThere
  <2>1. handle[r] \in Writers /\ last[handle[r]] # None /\ file[handle[r]] = file[r]
    BY <1>1 DEF IndInv, RequestInv, TypeOK
  <2>2. tree[file[r]] = handle[r]
    BY <1>1, <2>1 DEF IndInv, LinkInv
  <2>3. Settled(handle[r])
    BY DEF Settled, Saved
  <2>4. data[handle[r]] = Whole(r)
    BY <1>1, <2>1, <2>3 DEF IndInv, ContentInv
  <2> QED  BY <2>2, <2>4
<1> QED  BY <1>1, FilesInductive, PTL

(* Two creates of a path that do not overlap succeed both only if the file  *)
(* of the first has been taken away.                                        *)
THEOREM ExclusiveCreate == Spec => []CreateIsExclusive
<1>1. ASSUME IndInv PROVE CreateIsExclusive
  <2> SUFFICES ASSUME NEW q \in Requests, NEW r \in Requests, file[q] = file[r], Saved(q),
                      handle[q] \in seen[r]
               PROVE  handle[q] \in gone
    BY DEF CreateIsExclusive
  <2>1. handle[q] \in Writers /\ file[handle[q]] = file[q]
    BY <1>1 DEF IndInv, RequestInv, TypeOK
  <2> QED  BY <1>1, <2>1 DEF IndInv, SeenInv
<1> QED  BY <1>1, FilesInductive, PTL

(* A read that met no writer returns what one writer wrote, whole. *)
THEOREM WholeReads == Spec => []ReadIsWhole
<1>1. ASSUME IndInv PROVE ReadIsWhole
  <2> SUFFICES ASSUME NEW r \in Requests, kind[r] = "read", pc[r] = "ok", r \notin blurred
               PROVE  \E w \in Writers : got[r] = Whole(w)
    BY DEF ReadIsWhole
  <2> QED  BY <1>1 DEF IndInv, ReadInv
<1> QED  BY <1>1, FilesInductive, PTL

(* What a create truncates has appeared after it looked. *)
THEOREM CreateTruncatesUnseen == Spec => TruncatesOnlyUnseen
<1> DEFINE Safe == \A r \in Requests :
             kind[r] = "create" /\ pc[r] = "open" /\ pc'[r] = "write" => handle'[r] \notin seen[r]
<1>1. ASSUME IndInv, [Next]_vars PROVE [Safe]_vars
  <2>1. CASE UNCHANGED vars
    BY <2>1
  <2>2. CASE Next
    <3> SUFFICES ASSUME NEW r \in Requests, pc[r] = "open", pc'[r] = "write"
                 PROVE  handle'[r] \notin seen[r]
      OBVIOUS
    <3>1. Cases /\ TypeOK /\ LinkInv /\ LastInv /\ RequestInv /\ SeenInv
      BY <1>1, <2>2, StepCases DEF IndInv
    <3>2. PICK i \in Writers : OpenStep(r, i)
      <4>1. ASSUME NEW q \in Requests, SendsFacts(q) PROVE FALSE
        BY <4>1 DEF SendsFacts
      <4>2. ASSUME NEW q \in Requests, Moves(q) PROVE FALSE
        BY <3>1, <4>2, MoveFacts
      <4>3. ASSUME NEW q \in Requests, NEW i \in Writers,
                   WriteStep(q, i) \/ RemoveStep(q, i) \/ OpenReadStep(q, i) \/ ReadStep(q, i)
            PROVE  FALSE
        BY <4>3 DEF WriteStep, RemoveStep, OpenReadStep, ReadStep
      <4>4. ASSUME NEW q \in Requests, NEW i \in Writers, OpenStep(q, i) PROVE q = r
        BY <4>4 DEF OpenStep
      <4>5. ASSUME NEW e \in Edits, NEW f \in Files, NEW i \in Writers, EditStep(e, f, i) PROVE FALSE
        BY <4>5 DEF EditStep
      <4> QED  BY <3>1, <4>1, <4>2, <4>3, <4>4, <4>5 DEF Cases
    <3>3. handle'[r] = i /\ i = (IF tree[file[r]] = None THEN r ELSE tree[file[r]])
      BY <3>2 DEF OpenStep, Inode
    <3>4. CASE i = r
      BY <3>1, <3>3, <3>4, Unused DEF SeenInv
    <3>5. CASE i = tree[file[r]] /\ i # None
      <4>1. file[r] \in Files
        BY <3>1 DEF RequestInv
      <4>2. file[i] = file[r] /\ i \notin gone
        BY <3>1, <3>5, <4>1 DEF LinkInv
      <4> QED  BY <3>1, <3>3, <4>2 DEF SeenInv
    <3> QED  BY <3>3, <3>4, <3>5
  <2> QED  BY <1>1, <2>1, <2>2
<1>2. Spec => [][Safe]_vars
  BY <1>1, FilesInductive, PTL DEF Spec
<1> QED  BY <1>2 DEF TruncatesOnlyUnseen
=============================================================================
