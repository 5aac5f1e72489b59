---------------------------- MODULE ProjectFiles ----------------------------
(***************************************************************************)
(* The files of a project under the file endpoints of the bridge server    *)
(* (api/files.ts).  Every handler awaits between its calls of the file     *)
(* system, so that handlers interleave with one another and with the edits *)
(* of the CLI; nothing locks a file.                                       *)
(*                                                                         *)
(* A request and an edit are writers.  The blocks that writer w writes are *)
(* all called w, and an inode is named after the writer that made it.      *)
(* Handlers keep the inode they have opened, also when its name is gone.   *)
(***************************************************************************)
EXTENDS Integers, Sequences

CONSTANTS
  Files,      \* paths in the project
  Requests,   \* HTTP requests, each made once
  Edits,      \* edits by the CLI, each made once
  MaxBlocks,  \* of the content that a request writes
  None,       \* no inode, no writer
  Hole        \* a block that nobody has written

Writers == Requests \cup Edits

ASSUME FilesAssumption ==
  /\ Requests \cap Edits = {} /\ None \notin Writers \cup Files /\ Hole \notin Writers
  /\ MaxBlocks \in Nat

VARIABLES
  tree,    \* the inode of each path, or None
  data,    \* the blocks of each inode
  pc,      \* the next step of a request, or its answer: "ok", "refused" (4xx), "error" (500)
  kind,    \* "create", "update", "delete" or "read"
  file,    \* the path that a writer works on
  size,    \* the blocks a writer has to write, or a reader expects
  handle,  \* the inode that a request has opened
  pos,     \* the blocks written or read so far
  got,     \* the blocks read
  last,    \* observed: the writer that has truncated the inode last
  mixed,   \* observed: inodes truncated while another writer had them open
  gone,    \* observed: inodes that have lost their path
  seen,    \* observed: the inodes there had been when a create looked
  blurred  \* observed: reads of an inode while it was not settled

fileVars == <<tree, data, last, mixed, gone>>
requestVars == <<pc, kind, file, size, handle, pos, got, seen, blurred>>
vars == <<fileVars, requestVars>>

Answers == {"ok", "refused", "error"}

TypeOK ==
  /\ tree \in [Files -> Writers \cup {None}]
  /\ data \in [Writers -> Seq(Writers \cup {Hole})]
  /\ pc \in [Requests -> {"idle", "check", "open", "write", "unlink", "stat", "openread", "read"}
                           \cup Answers]
  /\ kind \in [Requests -> {"create", "update", "delete", "read"}]
  /\ file \in [Writers -> Files \cup {None}]
  /\ size \in [Writers -> Nat]
  /\ handle \in [Requests -> Writers \cup {None}]
  /\ pos \in [Requests -> Nat]
  /\ got \in [Requests -> Seq(Writers \cup {Hole})]
  /\ last \in [Writers -> Writers \cup {None}]
  /\ mixed \subseteq Writers /\ gone \subseteq Writers
  /\ seen \in [Requests -> SUBSET Writers]
  /\ blurred \subseteq Requests

Init ==
  /\ tree = [f \in Files |-> None]
  /\ data = [i \in Writers |-> <<>>]
  /\ pc = [r \in Requests |-> "idle"]
  /\ kind = [r \in Requests |-> "read"]
  /\ file = [w \in Writers |-> None]
  /\ size = [w \in Writers |-> 0]
  /\ handle = [r \in Requests |-> None]
  /\ pos = [r \in Requests |-> 0]
  /\ got = [r \in Requests |-> <<>>]
  /\ last = [i \in Writers |-> None]
  /\ mixed = {} /\ gone = {} /\ blurred = {}
  /\ seen = [r \in Requests |-> {}]

-----------------------------------------------------------------------------
Goto(r, step) == pc' = [pc EXCEPT ![r] = step]

Inode(r) == tree[file[r]]

(* What writer w leaves behind when nobody disturbs it. *)
Whole(w) == [b \in 1 .. size[w] |-> w]

(* A write at an offset: past the end it leaves holes. *)
Put(h, n, w) ==
  [b \in 1 .. (IF n > Len(h) THEN n ELSE Len(h)) |->
     IF b = n THEN w ELSE IF b <= Len(h) THEN h[b] ELSE Hole]

Writing(i) == {r \in Requests : pc[r] = "write" /\ handle[r] = i}
Reading(i) == {r \in Requests : pc[r] = "read" /\ handle[r] = i}

Settled(i) ==
  /\ i \notin mixed
  /\ last[i] \in Edits \/ (last[i] \in Requests /\ pc[last[i]] = "ok")

(* Writer w truncates inode i, or makes it. *)
Truncates(w, i) ==
  /\ last' = [last EXCEPT ![i] = w]
  /\ mixed' = IF Writing(i) = {} THEN mixed \ {i} ELSE mixed \cup {i}
  /\ blurred' = blurred \cup Reading(i)

-----------------------------------------------------------------------------
(* The requests. *)
FirstStep(k) ==
  CASE k = "create" -> "check" [] k = "update" -> "open"
    [] k = "delete" -> "unlink" [] k = "read" -> "stat"

Sends(r, k, f, n) ==
  /\ pc[r] = "idle"
  /\ Goto(r, FirstStep(k))
  /\ kind' = [kind EXCEPT ![r] = k]
  /\ file' = [file EXCEPT ![r] = f]
  /\ size' = [size EXCEPT ![r] = n]
  /\ UNCHANGED <<fileVars, handle, pos, got, seen, blurred>>

(* A handler has found the session and accepted the path. *)
Begin(r, k, f, n) ==
  /\ k \in {"delete", "read"} => n = 0
  /\ Sends(r, k, f, n)

(* /claude-new-file <path>: a file without content. *)
NewFile(r, f) == Sends(r, "create", f, 0)

(* No session, no path, no content, or a path outside of the project. *)
Refuse(r) ==
  /\ pc[r] = "idle"
  /\ Goto(r, "refused")
  /\ UNCHANGED <<fileVars, kind, file, size, handle, pos, got, seen, blurred>>

(* Mutant: no look whether the file is there. *)
Check_Trusts(r) ==
  /\ pc[r] = "check"
  /\ Goto(r, "open")
  /\ seen' = [seen EXCEPT ![r] = {i \in Writers : last[i] # None}]
  /\ UNCHANGED <<fileVars, kind, file, size, handle, pos, got, blurred>>

(* fs.access: 409 when the file is there. *)
Check(r) ==
  /\ pc[r] = "check"
  /\ IF Inode(r) # None
       THEN Goto(r, "refused") /\ UNCHANGED seen
       ELSE /\ Goto(r, "open")
            /\ seen' = [seen EXCEPT ![r] = {i \in Writers : last[i] # None}]
  /\ UNCHANGED <<fileVars, kind, file, size, handle, pos, got, blurred>>

(* Mutant: the old content is not cut off. *)
Open_KeepsTail(r) ==
  /\ pc[r] = "open"
  /\ LET i == IF Inode(r) = None THEN r ELSE Inode(r) IN
       /\ tree' = [tree EXCEPT ![file[r]] = i]
       /\ handle' = [handle EXCEPT ![r] = i]
       /\ Truncates(r, i)
  /\ Goto(r, "write")
  /\ UNCHANGED <<data, gone, kind, file, size, pos, got, seen>>

(* writeFile opens with "w": it makes the file or truncates the one that   *)
(* is there, whoever has made it since the check.                          *)
Open(r) ==
  /\ pc[r] = "open"
  /\ LET i == IF Inode(r) = None THEN r ELSE Inode(r) IN
       /\ tree' = [tree EXCEPT ![file[r]] = i]
       /\ data' = [data EXCEPT ![i] = <<>>]
       /\ handle' = [handle EXCEPT ![r] = i]
       /\ Truncates(r, i)
  /\ Goto(r, "write")
  /\ UNCHANGED <<gone, kind, file, size, pos, got, seen>>

WriteBlock(r) ==
  /\ pc[r] = "write" /\ pos[r] < size[r]
  /\ data' = [data EXCEPT ![handle[r]] = Put(@, pos[r] + 1, r)]
  /\ pos' = [pos EXCEPT ![r] = @ + 1]
  /\ blurred' = blurred \cup Reading(handle[r])
  /\ UNCHANGED <<tree, last, mixed, gone, pc, kind, file, size, handle, got, seen>>

FinishWrite(r) ==
  /\ pc[r] = "write" /\ pos[r] = size[r]
  /\ Goto(r, "ok")
  /\ UNCHANGED <<fileVars, kind, file, size, handle, pos, got, seen, blurred>>

(* mkdir, open or write fails, or the server ends: what was written stays. *)
WriteFails(r) ==
  /\ pc[r] = "open" \/ (pc[r] = "write" /\ pos[r] < size[r])
  /\ Goto(r, "error")
  /\ UNCHANGED <<fileVars, kind, file, size, handle, pos, got, seen, blurred>>

Unlink(r) ==
  /\ pc[r] = "unlink"
  /\ IF Inode(r) = None
       THEN Goto(r, "error") /\ UNCHANGED fileVars
       ELSE /\ Goto(r, "ok")
            /\ tree' = [tree EXCEPT ![file[r]] = None]
            /\ gone' = gone \cup {Inode(r)}
            /\ UNCHANGED <<data, last, mixed>>
  /\ UNCHANGED <<kind, file, size, handle, pos, got, seen, blurred>>

Stat(r) ==
  /\ pc[r] = "stat"
  /\ Goto(r, IF Inode(r) = None THEN "refused" ELSE "openread")
  /\ UNCHANGED <<fileVars, kind, file, size, handle, pos, got, seen, blurred>>

(* readFile opens the file, which may be gone since the stat, and asks for *)
(* its size.                                                               *)
OpenRead(r) ==
  /\ pc[r] = "openread"
  /\ IF Inode(r) = None
       THEN Goto(r, "error") /\ UNCHANGED <<handle, size, blurred>>
       ELSE /\ Goto(r, "read")
            /\ handle' = [handle EXCEPT ![r] = Inode(r)]
            /\ size' = [size EXCEPT ![r] = Len(data[Inode(r)])]
            /\ blurred' = IF Settled(Inode(r)) THEN blurred ELSE blurred \cup {r}
  /\ UNCHANGED <<fileVars, kind, file, pos, got, seen>>

ReadBlock(r) ==
  /\ pc[r] = "read"
  /\ pos[r] < Len(data[handle[r]]) /\ (size[r] = 0 \/ pos[r] < size[r])
  /\ got' = [got EXCEPT ![r] = Append(@, data[handle[r]][pos[r] + 1])]
  /\ pos' = [pos EXCEPT ![r] = @ + 1]
  /\ UNCHANGED <<fileVars, pc, kind, file, size, handle, seen, blurred>>

(* Mutant: one read is taken for all of them. *)
FinishRead_Early(r) ==
  /\ pc[r] = "read"
  /\ pos[r] >= Len(data[handle[r]]) \/ pos[r] = 1
  /\ Goto(r, "ok")
  /\ UNCHANGED <<fileVars, kind, file, size, handle, pos, got, seen, blurred>>

(* At the end of the file, or after as much as there was at first. *)
FinishRead(r) ==
  /\ pc[r] = "read"
  /\ pos[r] >= Len(data[handle[r]]) \/ (size[r] > 0 /\ pos[r] = size[r])
  /\ Goto(r, "ok")
  /\ UNCHANGED <<fileVars, kind, file, size, handle, pos, got, seen, blurred>>

RequestStep(r) ==
  \/ Refuse(r) \/ Check(r) \/ Open(r) \/ WriteBlock(r) \/ FinishWrite(r) \/ WriteFails(r)
  \/ Unlink(r) \/ Stat(r) \/ OpenRead(r) \/ ReadBlock(r) \/ FinishRead(r)

-----------------------------------------------------------------------------
(* The CLI writes one block to a file at once, in place or by a rename of  *)
(* a new file.                                                             *)
Edit(e, f) ==
  /\ file[e] = None
  /\ file' = [file EXCEPT ![e] = f]
  /\ size' = [size EXCEPT ![e] = 1]
  /\ \E i \in {e} \cup ({tree[f]} \ {None}) :
       /\ tree' = [tree EXCEPT ![f] = i]
       /\ data' = [data EXCEPT ![i] = <<e>>]
       /\ gone' = gone \cup ({tree[f]} \ {None, i})
       /\ Truncates(e, i)
  /\ UNCHANGED <<pc, kind, handle, pos, got, seen>>

Next ==
  \/ \E r \in Requests, f \in Files :
       \/ \E k \in {"create", "update", "delete", "read"}, n \in 0 .. MaxBlocks : Begin(r, k, f, n)
       \/ NewFile(r, f)
  \/ \E r \in Requests : RequestStep(r)
  \/ \E e \in Edits, f \in Files : Edit(e, f)

Spec == Init /\ [][Next]_vars

-----------------------------------------------------------------------------
Saved(r) == kind[r] \in {"create", "update"} /\ pc[r] = "ok"

(* A file that was saved is there, with all of its content and nothing     *)
(* else, until somebody deletes, replaces or truncates it, unless two      *)
(* writers had it open at the same time.                                   *)
SavedIsThere ==
  \A r \in Requests :
    Saved(r) /\ last[handle[r]] = r /\ handle[r] \notin mixed \cup gone =>
      tree[file[r]] = handle[r] /\ data[handle[r]] = Whole(r)

(* Of two creates that are answered with success for a path, the second    *)
(* looked before the first had opened the file, or somebody took the file  *)
(* of the first away.                                                      *)
CreateIsExclusive ==
  \A q, r \in Requests :
    /\ q # r /\ file[q] = file[r]
    /\ Saved(q) /\ kind[q] = "create" /\ Saved(r) /\ kind[r] = "create"
    /\ handle[q] \in seen[r]
    => handle[q] \in gone

(* A read that met no writer returns the content of one writer, whole. *)
ReadIsWhole ==
  \A r \in Requests :
    kind[r] = "read" /\ pc[r] = "ok" /\ r \notin blurred => \E w \in Writers : got[r] = Whole(w)

(* A create never truncates a file that was there when it looked; one that *)
(* has appeared since then it does.                                        *)
TruncatesOnlyUnseen ==
  [][\A r \in Requests :
       kind[r] = "create" /\ pc[r] = "open" /\ pc'[r] = "write" => handle'[r] \notin seen[r]]_vars

-----------------------------------------------------------------------------
(* The inductive invariant.  What a writer writes is settled once it has    *)
(* opened the file.                                                        *)
Fixed(w) ==
  \/ w \in Edits /\ file[w] # None
  \/ w \in Requests /\ kind[w] # "read" /\ pc[w] \in {"write", "ok", "error"}

LinkInv ==
  /\ \A f \in Files : tree[f] # None =>
       last[tree[f]] # None /\ tree[f] \notin gone /\ file[tree[f]] = f
  /\ \A i \in Writers : last[i] # None => file[i] \in Files /\ (i \notin gone => tree[file[i]] = i)
  /\ \A i \in gone : last[i] # None

LastInv ==
  \A i \in Writers : last[i] # None =>
    Fixed(last[i]) /\ (last[i] \in Requests => handle[last[i]] = i)

RequestInv ==
  \A r \in Requests :
    /\ pc[r] = "idle" => file[r] = None /\ seen[r] = {} /\ kind[r] = "read"
    /\ pc[r] \in {"idle", "check", "open", "unlink", "stat", "openread"} =>
         handle[r] = None /\ pos[r] = 0 /\ got[r] = <<>> /\ last[r] = None
    /\ pc[r] \in {"check", "open", "write", "unlink", "stat", "openread", "read"} => file[r] \in Files
    /\ pc[r] \in {"write", "read"} \/ Saved(r) => handle[r] # None
    /\ handle[r] # None => last[handle[r]] # None /\ file[handle[r]] = file[r]
    /\ pc[r] \in {"check", "open", "write"} => kind[r] \in {"create", "update"}
    /\ pc[r] \in {"stat", "openread", "read"} => kind[r] = "read"
    /\ pc[r] = "unlink" => kind[r] = "delete"

ContentInv ==
  \A i \in Writers : last[i] # None /\ i \notin mixed =>
    /\ \A r \in Writing(i) :
         last[i] = r /\ pos[r] <= size[r] /\ data[i] = [b \in 1 .. pos[r] |-> r]
    /\ Settled(i) => data[i] = Whole(last[i])

SeenInv ==
  \A r \in Requests : \A i \in seen[r] : last[i] # None /\ (file[i] = file[r] => i \in gone)

ReadInv ==
  \A r \in Requests : kind[r] = "read" /\ r \notin blurred =>
    /\ pc[r] = "read" =>
         /\ Settled(handle[r])
         /\ size[r] = size[last[handle[r]]] /\ pos[r] <= size[r]
         /\ got[r] = [b \in 1 .. pos[r] |-> last[handle[r]]]
    /\ pc[r] = "ok" => \E w \in Writers : Fixed(w) /\ got[r] = Whole(w)

IndInv == TypeOK /\ LinkInv /\ LastInv /\ RequestInv /\ ContentInv /\ SeenInv /\ ReadInv
=============================================================================
