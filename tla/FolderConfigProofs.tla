------------------------- MODULE FolderConfigProofs -------------------------
(***************************************************************************)
(* Proofs about FolderConfig: for any number of folders, routes and calls, *)
(* updates compose, a folder that moves keeps nothing of its old           *)
(* destination, and a path that is set was checked against all the paths   *)
(* that the call could have seen.                                          *)
(***************************************************************************)
EXTENDS FolderConfig, TLAPS

-----------------------------------------------------------------------------
(* What a call has in hand, s, says of the rows of the folders.            *)

(* The row an update will write differs from the one in the table, if that *)
(* one is as the update read it, in nothing but what the request is about; *)
(* and the update knows whether that is another destination.               *)
Composes(s, rows) ==
  s.op = "update" => /\ s.of \in Folder
                     /\ s.fresh =>
                          /\ \A k \in Field \ Concerned(s.asked) :
                               s.row[k] = rows[s.of][k]
                          /\ ~s.moved => /\ s.row.dest = rows[s.of].dest
                                         /\ s.row.steps = rows[s.of].steps

(* A call that is about to write has compared its path to those of all the *)
(* folders that got theirs before.                                         *)
Compared(s, rows) ==
  /\ s.op \in {"create", "update"} /\ s.pc = "write" /\ s.fresh
  => \A g \in Folder \ (s.unseen \cup {s.of}) :
       rows[g].exists => ~Overlap(s.row.path, rows[g].path)

(* Which calls are at which of their steps. *)
Staged(s) ==
  /\ s.pc = "check" => s.op \in {"create", "update"}
  /\ s.pc = "route" =>
       s.op = "update" /\ s.row.route \in Route /\ "route" \in s.asked
  /\ s.op = "create" => s.of = None /\ s.fresh

Sound(s, rows) == Composes(s, rows) /\ Compared(s, rows) /\ Staged(s)

(* The inductive invariant. *)
IInv ==
  /\ TypeOK
  /\ ~up => \A c \in Call : call[c].op = "none"
  /\ \A c \in Call : Sound(call[c], folder)

-----------------------------------------------------------------------------
(* Types.                                                                  *)

LEMMA NoFolderType == NoFolder \in FolderRow
BY RequestAssumption DEF NoFolder, FolderRow

LEMMA NoRouteType == NoRouteRow \in RouteRow
BY RequestAssumption DEF NoRouteRow, RouteRow

LEMMA NoCallType == NoCall \in CallState
BY NoFolderType DEF NoCall, CallState

LEMMA ToldType ==
  ASSUME TypeOK, NEW written, NEW P \in SUBSET Folder
  PROVE  Told(written, P) \in [Call -> CallState]
<1> SUFFICES ASSUME NEW c \in Call PROVE Told(written, P)[c] \in CallState
  BY DEF Told
<1>1. call[c] \in CallState
  BY DEF TypeOK
<1>2. OutdatedCall(c) \in CallState
  BY <1>1, NoCallType DEF OutdatedCall, CallState
<1>3. [call[c] EXCEPT !.unseen = @ \cup P] \in CallState
  BY <1>1 DEF CallState
<1>4. QED
  BY <1>1, <1>2, <1>3 DEF Told

(* What an update asks for. *)
LEMMA EditedRow ==
  ASSUME TypeOK, NEW f \in Folder, NEW edit \in Edits[f], MayEdit(f, edit)
  PROVE  /\ Edited(folder[f], edit) \in FolderRow
         /\ \A k \in Field \ Concerned(DOMAIN edit) :
              Edited(folder[f], edit)[k] = folder[f][k]
         /\ "route" \in DOMAIN edit => Edited(folder[f], edit).route \in Route
<1> DEFINE old == folder[f]
           Asked(k) == IF k \in DOMAIN edit THEN edit[k] ELSE old[k]
           path == IF "path" \in DOMAIN edit THEN Resolved[edit.path]
                   ELSE old.path
           row == [old EXCEPT !.route = Asked("route"), !.dest = Asked("dest"),
                              !.steps = Asked("steps"),
                              !.status = Asked("status"),
                              !.enabled = Asked("enabled"), !.path = path]
<1>1. old \in FolderRow
  BY DEF TypeOK
<1>2. /\ Asked("route") \in Route \cup {NoRoute} /\ Asked("dest") \in Dest
      /\ Asked("steps") \in Steps /\ Asked("enabled") \in BOOLEAN
      /\ Asked("status") \in {"watching", "detecting", "stopped", "paused"}
      /\ "route" \in DOMAIN edit => Asked("route") \in Route
  BY <1>1, RequestAssumption DEF FolderRow
<1>3. path \in Path
  BY <1>1, RequestAssumption, PathAssumption DEF FolderRow, MayEdit, ValidPath
<1>4. /\ row \in FolderRow
      /\ row.route = Asked("route") /\ row.dest = Asked("dest")
      /\ row.steps = Asked("steps") /\ row.enabled = Asked("enabled")
      /\ row.status = Asked("status") /\ row.path = path
  BY <1>1, <1>2, <1>3 DEF FolderRow
<1>5. Edited(old, edit) = [row EXCEPT !.status = StatusOf(row, edit)]
  BY DEF Edited
<1> HIDE DEF row
<1>6. /\ StatusOf(row, edit) \in {"watching", "detecting", "stopped", "paused"}
      /\ "status" \notin Concerned(DOMAIN edit) =>
           StatusOf(row, edit) = old.status
  BY <1>4 DEF StatusOf, FolderRow, Concerned
<1>7. /\ Edited(old, edit) \in FolderRow
      /\ Edited(old, edit).route = row.route
      /\ Edited(old, edit).dest = row.dest
      /\ Edited(old, edit).steps = row.steps
      /\ Edited(old, edit).enabled = row.enabled
      /\ Edited(old, edit).path = row.path
      /\ Edited(old, edit).status = StatusOf(row, edit)
  BY <1>4, <1>5, <1>6 DEF FolderRow
<1>8. \A k \in Field \ Concerned(DOMAIN edit) : Edited(old, edit)[k] = old[k]
  <2> SUFFICES ASSUME NEW k \in Field, k \notin Concerned(DOMAIN edit)
               PROVE  Edited(old, edit)[k] = old[k]
    OBVIOUS
  <2>1. k \notin DOMAIN edit
    BY DEF Concerned
  <2>2. CASE k = "status"
    BY <2>2, <1>6, <1>7
  <2>3. CASE k # "status"
    BY <2>1, <2>3, <1>4, <1>7 DEF Field
  <2>4. QED
    BY <2>2, <2>3
<1>9. QED
  BY <1>2, <1>4, <1>7, <1>8

(* What it leaves. *)
LEMMA CommittedRow ==
  ASSUME TypeOK, NEW c \in Call, call[c].of \in Folder
  PROVE  /\ Committed(c) \in FolderRow
         /\ \A k \in Field : Committed(c)[k] = call[c].row[k]
         /\ Committed(c).work =>
              folder[call[c].of].work /\ ~call[c].moved
<1> DEFINE f == call[c].of
           work == folder[f].work /\ ~call[c].moved
           lease == folder[f].lease
<1>1. call[c].row \in FolderRow /\ work \in BOOLEAN
      /\ lease \in {"none", "live", "lapsed"}
  BY DEF TypeOK, CallState, FolderRow
<1>2. Committed(c) = [call[c].row EXCEPT !.lease = lease, !.work = work]
  BY DEF Committed
<1> HIDE DEF work, lease
<1>3. /\ Committed(c) \in FolderRow /\ Committed(c).work = work
      /\ \A k \in Field : Committed(c)[k] = call[c].row[k]
  BY <1>1, <1>2 DEF FolderRow, Field
<1>4. QED
  BY <1>3 DEF work

-----------------------------------------------------------------------------
(* Soundness.                                                              *)

LEMMA NoCallSound == ASSUME NEW rows PROVE Sound(NoCall, rows)
BY DEF NoCall, Sound, Composes, Compared, Staged

(* Telling the calls what was written keeps all of them sound: an update   *)
(* of a row that was written is outdated, and a path that was set is one   *)
(* that the calls behind their check have not seen.                        *)
LEMMA ToldSound ==
  ASSUME TypeOK, NEW c \in Call, Sound(call[c], folder), NEW rows,
         NEW written, NEW P \in SUBSET Folder,
         \A f \in Folder \ written : \A k \in Field : rows[f][k] = folder[f][k],
         \A f \in Folder \ P : rows[f].exists =>
            folder[f].exists /\ rows[f].path = folder[f].path
  PROVE  Sound(Told(written, P)[c], rows)
<1> DEFINE s == call[c]
           t == Told(written, P)[c]
<1>1. s \in CallState
  BY DEF TypeOK
<1>2. CASE Outdated(c, written)
  <2>1. t = OutdatedCall(c)
    BY <1>2 DEF Told
  <2>2. t.op = s.op /\ t.of = s.of /\ t.pc = "write" /\ t.fresh = FALSE
    BY <2>1 DEF OutdatedCall, NoCall
  <2>3. s.op \in {"update", "reroute"}
    BY <1>2 DEF Outdated
  <2>4. QED
    BY <2>2, <2>3 DEF Sound, Composes, Compared, Staged
<1>3. CASE ~Outdated(c, written)
  <2>1. /\ t.op = s.op /\ t.of = s.of /\ t.pc = s.pc /\ t.fresh = s.fresh
        /\ t.asked = s.asked /\ t.row = s.row /\ t.moved = s.moved
        /\ s.pc = "write" => t.unseen = s.unseen \cup P
    BY <1>1, <1>3 DEF Told, CallState
  <2>2. Composes(t, rows)
    <3> SUFFICES ASSUME s.op = "update"
                 PROVE  Composes(t, rows)
      BY <2>1 DEF Composes
    <3>1. s.of \in Folder /\ s.of \notin written
      BY <1>3 DEF Outdated, Sound, Composes
    <3>2. \A k \in Field : rows[s.of][k] = folder[s.of][k]
      BY <3>1
    <3>3. rows[s.of].dest = folder[s.of].dest
          /\ rows[s.of].steps = folder[s.of].steps
      BY <3>2 DEF Field
    <3>4. QED
      BY <2>1, <3>1, <3>2, <3>3 DEF Sound, Composes
  <2>3. Compared(t, rows)
    BY <2>1 DEF Sound, Compared
  <2>4. Staged(t)
    BY <2>1 DEF Sound, Staged
  <2>5. QED
    BY <2>2, <2>3, <2>4 DEF Sound
<1>4. QED
  BY <1>2, <1>3

(* As long as the rows stay as they are, in what matters, so do the calls. *)
LEMMA SameSound ==
  ASSUME NEW s, NEW rows, NEW now, Sound(s, rows),
         \A f \in Folder : \A k \in Field : now[f][k] = rows[f][k],
         \A f \in Folder : now[f].exists = rows[f].exists
  PROVE  Sound(s, now)
<1>1. \A f \in Folder : /\ now[f].path = rows[f].path
                        /\ now[f].dest = rows[f].dest
                        /\ now[f].steps = rows[f].steps
  BY DEF Field
<1>2. Composes(s, now)
  BY <1>1 DEF Sound, Composes
<1>3. Compared(s, now)
  BY <1>1 DEF Sound, Compared
<1>4. QED
  BY <1>2, <1>3 DEF Sound

-----------------------------------------------------------------------------
(* The steps preserve the invariant.                                       *)

(* The state of one call goes on, and nothing else changes. *)
LEMMA ProceedStep ==
  ASSUME IInv, up, NEW c \in Call, NEW s \in CallState, Sound(s, folder),
         Proceed(c, s)
  PROVE  IInv'
BY DEF IInv, TypeOK, Proceed

LEMMA FailsStep ==
  ASSUME IInv, up, NEW c \in Call, Fails(c)
  PROVE  IInv'
BY NoCallType, NoCallSound DEF IInv, TypeOK, Fails, Ends

(* Rows are written, and the calls are told. *)
LEMMA ToldStep ==
  ASSUME IInv, NEW written, NEW P \in SUBSET Folder,
         call' = Told(written, P), up' = up,
         folder' \in [Folder -> FolderRow], route' \in [Route -> RouteRow],
         \A f \in Folder \ written : \A k \in Field :
            folder'[f][k] = folder[f][k],
         \A f \in Folder \ P : folder'[f].exists =>
            folder[f].exists /\ folder'[f].path = folder[f].path
  PROVE  IInv'
<1>1. TypeOK'
  BY ToldType DEF IInv, TypeOK
<1>2. \A c \in Call : Sound(call'[c], folder')
  BY ToldSound DEF IInv
<1>3. ~up => \A c \in Call : call'[c].op = "none"
  BY DEF IInv, Told, Outdated
<1>4. QED
  BY <1>1, <1>2, <1>3 DEF IInv

(* The same, by a call that is then over. *)
LEMMA EndToldStep ==
  ASSUME IInv, NEW written, NEW P \in SUBSET Folder, NEW c \in Call,
         call' = Ends(c, Told(written, P)), up' = up, up,
         folder' \in [Folder -> FolderRow], route' \in [Route -> RouteRow],
         \A f \in Folder \ written : \A k \in Field :
            folder'[f][k] = folder[f][k],
         \A f \in Folder \ P : folder'[f].exists =>
            folder[f].exists /\ folder'[f].path = folder[f].path
  PROVE  IInv'
<1>1. Told(written, P) \in [Call -> CallState]
  BY ToldType DEF IInv
<1>2. TypeOK'
  BY <1>1, NoCallType DEF IInv, TypeOK, Ends
<1>3. \A d \in Call : Sound(call'[d], folder')
  <2> SUFFICES ASSUME NEW d \in Call PROVE Sound(call'[d], folder')
    OBVIOUS
  <2>1. CASE d = c
    BY <1>1, <2>1, NoCallSound DEF Ends
  <2>2. CASE d # c
    <3>1. call'[d] = Told(written, P)[d]
      BY <1>1, <2>2 DEF Ends
    <3>2. QED
      BY <3>1, ToldSound DEF IInv
  <2>3. QED
    BY <2>1, <2>2
<1>4. QED
  BY <1>2, <1>3 DEF IInv

(* One folder is written. *)
LEMMA WriteStep ==
  ASSUME IInv, up, NEW c \in Call, NEW f, NEW row \in FolderRow,
         NEW P \in SUBSET Folder, f \in P \/ ~row.exists,
         Write(c, f, row, P)
  PROVE  IInv'
<1>1. /\ folder \in [Folder -> FolderRow] /\ route \in [Route -> RouteRow]
      /\ folder' = [folder EXCEPT ![f] = row]
      /\ route' = route /\ up' = up /\ call' = Ends(c, Told({f}, P))
  BY DEF Write, IInv, TypeOK
<1>2. \A g \in Folder : folder'[g] = IF g = f THEN row ELSE folder[g]
  BY <1>1
<1>3. folder' \in [Folder -> FolderRow]
  BY <1>1
<1>4. \A g \in Folder \ {f} : \A k \in Field : folder'[g][k] = folder[g][k]
  BY <1>2
<1>5. \A g \in Folder \ P : folder'[g].exists =>
        folder[g].exists /\ folder'[g].path = folder[g].path
  BY <1>2
<1>6. QED
  BY <1>1, <1>3, <1>4, <1>5, EndToldStep

LEMMA CreateStepInv ==
  ASSUME IInv, NEW c \in Call, CreateStep(c)
  PROVE  IInv'
<1>1. CASE BeginCreate(c)
  <2>1. PICK in \in Creations :
          /\ ValidPath(in.path)
          /\ Proceed(c, [NoCall EXCEPT !.op = "create", !.pc = "check",
                          !.row = NewFolder(in)])
    BY <1>1 DEF BeginCreate
  <2> DEFINE s == [NoCall EXCEPT !.op = "create", !.pc = "check",
                                 !.row = NewFolder(in)]
  <2>2. (IF in.route = NoRoute THEN in.dest ELSE route[in.route].dest) \in Dest
    BY RequestAssumption DEF IInv, TypeOK, RouteRow
  <2>3. Resolved[in.path] \in Path
    BY <2>1, RequestAssumption, PathAssumption DEF ValidPath
  <2>4. NewFolder(in) \in FolderRow
    BY <2>2, <2>3, NoFolderType, RequestAssumption DEF NewFolder, FolderRow
  <2>5. s \in CallState
    BY <2>4, NoCallType DEF CallState
  <2>6. Sound(s, folder)
    BY DEF Sound, Composes, Compared, Staged, NoCall
  <2>7. QED
    BY <1>1, <2>1, <2>5, <2>6, ProceedStep DEF BeginCreate
<1>2. CASE Insert(c)
  <2>1. call[c].row \in FolderRow
    BY DEF IInv, TypeOK, CallState
  <2>2. PICK f \in Folder : Write(c, f, call[c].row, {f}) \/ Fails(c)
    BY <1>2 DEF Insert
  <2>3. up
    BY <1>2 DEF Insert, At
  <2>4. CASE Write(c, f, call[c].row, {f})
    BY <2>1, <2>3, <2>4, WriteStep
  <2>5. CASE Fails(c)
    BY <2>3, <2>5, FailsStep
  <2>6. QED
    BY <2>2, <2>4, <2>5
<1>3. QED
  BY <1>1, <1>2 DEF CreateStep

LEMMA CheckPathInv ==
  ASSUME IInv, NEW c \in Call, CheckPath(c)
  PROVE  IInv'
<1> DEFINE s == [call[c] EXCEPT !.pc = "write"]
<1>1. CASE PathFree(c)
  <2>1. call[c] \in CallState /\ call[c].op \in {"create", "update"}
        /\ Sound(call[c], folder)
    BY DEF IInv, TypeOK, CheckPath, Sound, Staged
  <2>2. /\ s \in CallState /\ s.pc = "write" /\ s.op = call[c].op
        /\ s.of = call[c].of /\ s.asked = call[c].asked
        /\ s.row = call[c].row /\ s.moved = call[c].moved
        /\ s.fresh = call[c].fresh
    BY <2>1 DEF CallState
  <2>3. \A g \in Folder \ {s.of} :
          folder[g].exists => ~Overlap(s.row.path, folder[g].path)
    BY <1>1, <2>2 DEF PathFree, Existing
  <2>4. Sound(s, folder)
    BY <2>1, <2>2, <2>3 DEF Sound, Composes, Compared, Staged
  <2>5. QED
    BY <1>1, <2>2, <2>4, ProceedStep DEF CheckPath
<1>2. CASE ~PathFree(c)
  BY <1>2, FailsStep DEF CheckPath
<1>3. QED
  BY <1>1, <1>2

LEMMA UpdateStepInv ==
  ASSUME IInv, NEW c \in Call, UpdateStep(c)
  PROVE  IInv'
<1>1. CASE BeginUpdate(c)
  <2>1. PICK f \in Folder : \E edit \in Edits[f] :
          /\ MayEdit(f, edit)
          /\ Proceed(c, [NoCall EXCEPT !.op = "update", !.of = f,
                 !.row = Edited(folder[f], edit), !.asked = DOMAIN edit,
                 !.moved = Moved(folder[f], Edited(folder[f], edit)),
                 !.pc = IF "route" \in DOMAIN edit THEN "route" ELSE "check"])
    BY <1>1 DEF BeginUpdate
  <2>2. PICK edit \in Edits[f] :
          /\ MayEdit(f, edit)
          /\ Proceed(c, [NoCall EXCEPT !.op = "update", !.of = f,
                 !.row = Edited(folder[f], edit), !.asked = DOMAIN edit,
                 !.moved = Moved(folder[f], Edited(folder[f], edit)),
                 !.pc = IF "route" \in DOMAIN edit THEN "route" ELSE "check"])
    BY <2>1
  <2> DEFINE row == Edited(folder[f], edit)
             s == [NoCall EXCEPT !.op = "update", !.of = f,
                     !.row = row, !.asked = DOMAIN edit,
                     !.moved = Moved(folder[f], row),
                     !.pc = IF "route" \in DOMAIN edit THEN "route"
                            ELSE "check"]
  <2>3. /\ row \in FolderRow
        /\ \A k \in Field \ Concerned(DOMAIN edit) : row[k] = folder[f][k]
        /\ "route" \in DOMAIN edit => row.route \in Route
    BY <2>2, EditedRow DEF IInv
  <2> HIDE DEF row
  <2>4. Moved(folder[f], row) \in BOOLEAN /\ DOMAIN edit \in SUBSET Field
    BY RequestAssumption DEF Moved
  <2>5. /\ s \in CallState /\ s.op = "update" /\ s.of = f /\ s.row = row
        /\ s.asked = DOMAIN edit /\ s.moved = Moved(folder[f], row)
        /\ s.pc = IF "route" \in DOMAIN edit THEN "route" ELSE "check"
    BY <2>3, <2>4, NoCallType DEF CallState
  <2> HIDE DEF s
  <2>6. Composes(s, folder)
    BY <2>3, <2>5 DEF Composes, Moved
  <2>7. Sound(s, folder)
    BY <2>6, <2>3, <2>5 DEF Sound, Compared, Staged
  <2>8. Proceed(c, s)
    BY <2>2 DEF s, row
  <2>9. QED
    BY <1>1, <2>5, <2>7, <2>8, ProceedStep DEF BeginUpdate
<1>2. CASE ReadRoute(c)
  <2> DEFINE dest == IF "dest" \in call[c].asked THEN call[c].row.dest
                     ELSE route[call[c].row.route].dest
             s == [call[c] EXCEPT !.pc = "check", !.row.dest = dest,
                     !.moved = @ \/ dest # call[c].row.dest]
  <2>1. /\ call[c] \in CallState /\ call[c].op = "update"
        /\ call[c].row \in FolderRow /\ call[c].row.route \in Route
        /\ call[c].pc = "route" /\ Sound(call[c], folder)
    BY <1>2 DEF IInv, TypeOK, CallState, ReadRoute, At, Sound, Staged
  <2>2. dest \in Dest
    BY <2>1 DEF IInv, TypeOK, FolderRow, RouteRow
  <2> HIDE DEF dest
  <2>3. /\ s \in CallState /\ s.pc = "check" /\ s.op = "update"
        /\ s.of = call[c].of /\ s.asked = call[c].asked
        /\ s.row = [call[c].row EXCEPT !.dest = dest]
        /\ s.moved = (call[c].moved \/ dest # call[c].row.dest)
        /\ s.fresh = call[c].fresh
    BY <2>1, <2>2 DEF CallState, FolderRow
  <2>4. /\ s.row.dest = dest
        /\ \A k \in Field \ {"dest"} : s.row[k] = call[c].row[k]
    BY <2>1, <2>3 DEF FolderRow, Field
  <2> HIDE DEF s
  <2>5. Composes(s, folder)
    <3>1. "route" \in call[c].asked /\ "dest" \in Concerned(call[c].asked)
      BY <2>1 DEF Sound, Staged, Concerned
    <3>2. \A k \in Field \ Concerned(call[c].asked) : s.row[k] = call[c].row[k]
      BY <2>4, <3>1
    <3>3. s.row.steps = call[c].row.steps
      BY <2>4 DEF Field
    <3>4. ~s.moved => ~call[c].moved /\ s.row.dest = call[c].row.dest
      BY <2>3, <2>4
    <3>5. QED
      BY <2>1, <2>3, <3>2, <3>3, <3>4 DEF Sound, Composes
  <2>6. Sound(s, folder)
    BY <2>3, <2>5 DEF Sound, Compared, Staged
  <2>7. Proceed(c, s) \/ Fails(c)
    BY <1>2 DEF ReadRoute, s, dest
  <2>8. QED
    BY <1>2, <2>3, <2>6, <2>7, ProceedStep, FailsStep DEF ReadRoute, At
<1>3. CASE CommitUpdate(c)
  <2>1. call[c].of \in Folder /\ up
    BY <1>3 DEF IInv, CommitUpdate, At, Sound, Composes
  <2>2. Committed(c) \in FolderRow
    BY <2>1, CommittedRow DEF IInv
  <2>3. CASE Write(c, call[c].of, Committed(c), {call[c].of})
    BY <2>1, <2>2, <2>3, WriteStep
  <2>4. CASE Fails(c)
    BY <2>1, <2>4, FailsStep
  <2>5. QED
    BY <1>3, <2>3, <2>4 DEF CommitUpdate
<1>4. QED
  BY <1>1, <1>2, <1>3 DEF UpdateStep

LEMMA DeleteStepInv ==
  ASSUME IInv, NEW c \in Call, DeleteStep(c)
  PROVE  IInv'
<1>1. CASE BeginDelete(c)
  <2>1. PICK f \in Folder :
          Proceed(c, [NoCall EXCEPT !.op = "delete", !.pc = "write", !.of = f])
    BY <1>1 DEF BeginDelete, Existing
  <2> DEFINE s == [NoCall EXCEPT !.op = "delete", !.pc = "write", !.of = f]
  <2>2. s \in CallState /\ s.op = "delete" /\ s.pc = "write"
    BY NoCallType DEF CallState
  <2>3. Sound(s, folder)
    BY <2>2 DEF Sound, Composes, Compared, Staged
  <2>4. QED
    BY <1>1, <2>1, <2>2, <2>3, ProceedStep DEF BeginDelete
<1>2. CASE CommitDelete(c)
  <2>1. ~NoFolder.exists /\ up
    BY <1>2 DEF NoFolder, CommitDelete, At
  <2>2. Write(c, call[c].of, NoFolder, {}) \/ Fails(c)
    BY <1>2 DEF CommitDelete
  <2>3. CASE Write(c, call[c].of, NoFolder, {})
    BY <2>1, <2>3, NoFolderType, WriteStep
  <2>4. CASE Fails(c)
    BY <2>1, <2>4, FailsStep
  <2>5. QED
    BY <2>2, <2>3, <2>4
<1>3. QED
  BY <1>1, <1>2 DEF DeleteStep

(* The folders after a reroute that succeeds. *)
LEMMA Rerouted ==
  ASSUME TypeOK, NEW dest \in Dest, NEW moving,
         folder' = [f \in Folder |->
                      IF f \in moving
                        THEN [folder[f] EXCEPT !.dest = dest, !.work = FALSE]
                        ELSE folder[f]],
         NEW f \in Folder
  PROVE  /\ folder'[f] \in FolderRow
         /\ folder'[f].exists = folder[f].exists
         /\ folder'[f].path = folder[f].path
         /\ f \notin moving => folder'[f] = folder[f]
         /\ f \in moving => ~folder'[f].work
BY DEF TypeOK, FolderRow

LEMMA RerouteStepInv ==
  ASSUME IInv, NEW c \in Call, RerouteStep(c)
  PROVE  IInv'
<1>1. CASE BeginReroute(c)
  <2>1. PICK r \in Route, dest \in AllowedDest :
          Proceed(c, [NoCall EXCEPT !.op = "reroute", !.pc = "write", !.of = r,
                        !.row.dest = dest, !.moved = dest # route[r].dest])
    BY <1>1 DEF BeginReroute
  <2> DEFINE s == [NoCall EXCEPT !.op = "reroute", !.pc = "write", !.of = r,
                     !.row.dest = dest, !.moved = dest # route[r].dest]
  <2>2. dest \in Dest
    BY RouteAssumption
  <2>3. s \in CallState /\ s.op = "reroute" /\ s.pc = "write"
    BY <2>2, NoCallType DEF CallState, FolderRow
  <2>4. Sound(s, folder)
    BY <2>3 DEF Sound, Composes, Compared, Staged
  <2>5. QED
    BY <1>1, <2>1, <2>3, <2>4, ProceedStep DEF BeginReroute
<1>2. CASE CommitReroute(c)
  <2> DEFINE r == call[c].of
             dest == call[c].row.dest
             moving == IF call[c].moved THEN Linked(r) ELSE {}
  <2>1. up /\ dest \in Dest
    BY <1>2 DEF IInv, TypeOK, CallState, FolderRow, CommitReroute, At
  <2>2. CASE /\ route' = [route EXCEPT ![r].dest = dest]
             /\ folder' = [f \in Folder |->
                  IF f \in moving
                    THEN [folder[f] EXCEPT !.dest = dest, !.work = FALSE]
                    ELSE folder[f]]
             /\ call' = Ends(c, Told({r} \cup moving, {}))
             /\ UNCHANGED up
    <3> HIDE DEF dest, moving
    <3>1. route' \in [Route -> RouteRow]
      BY <2>1, <2>2 DEF IInv, TypeOK, RouteRow
    <3>2. \A f \in Folder :
            /\ folder'[f] \in FolderRow
            /\ folder'[f].exists = folder[f].exists
            /\ folder'[f].path = folder[f].path
            /\ f \notin moving => folder'[f] = folder[f]
      BY <2>1, <2>2, Rerouted DEF IInv
    <3>3. folder' \in [Folder -> FolderRow]
      BY <2>2, <3>2
    <3>4. \A f \in Folder \ ({r} \cup moving) : \A k \in Field :
            folder'[f][k] = folder[f][k]
      BY <3>2
    <3>5. \A f \in Folder \ {} : folder'[f].exists =>
            folder[f].exists /\ folder'[f].path = folder[f].path
      BY <3>2
    <3> DEFINE written == {r} \cup moving
    <3>6. /\ call' = Ends(c, Told(written, {})) /\ up' = up
          /\ \A f \in Folder \ written : \A k \in Field :
               folder'[f][k] = folder[f][k]
      BY <2>2, <3>4
    <3> HIDE DEF written
    <3>7. QED
      BY <2>1, <3>1, <3>3, <3>5, <3>6, EndToldStep
  <2>3. CASE Fails(c)
    BY <2>1, <2>3, FailsStep
  <2>4. QED
    BY <1>2, <2>2, <2>3 DEF CommitReroute
<1>3. QED
  BY <1>1, <1>2 DEF RerouteStep

LEMMA RouteStepInv ==
  ASSUME IInv, NEW r \in Route, CreateRoute(r) \/ DeleteRoute(r)
  PROVE  IInv'
<1>1. CASE CreateRoute(r)
  BY <1>1, RouteAssumption DEF CreateRoute, IInv, TypeOK, RouteRow
<1>2. CASE DeleteRoute(r)
  <2>1. /\ call' = Told({r}, {}) /\ up' = up /\ folder' = folder
        /\ route' \in [Route -> RouteRow]
    BY <1>2, NoRouteType DEF DeleteRoute, IInv, TypeOK
  <2>2. folder' \in [Folder -> FolderRow]
    BY <2>1 DEF IInv, TypeOK
  <2>3. QED
    BY <2>1, <2>2, ToldStep
<1>3. QED
  BY <1>1, <1>2

(* What a scanner writes of a folder. *)
LEMMA ScansStep ==
  ASSUME IInv, NEW f \in Folder, NEW row \in FolderRow, Scans(f, row),
         row.exists = folder[f].exists, row.path = folder[f].path
  PROVE  IInv'
<1>1. /\ folder' \in [Folder -> FolderRow] /\ route' \in [Route -> RouteRow]
      /\ \A g \in Folder : folder'[g] = IF g = f THEN row ELSE folder[g]
      /\ call' = Told({f}, {}) /\ up' = up
  BY DEF Scans, IInv, TypeOK
<1>2. QED
  BY <1>1, ToldStep

(* Neither the status nor the lease is of those fields that a call depends *)
(* on; nor is work.                                                        *)
LEMMA ScanStepInv ==
  ASSUME IInv, NEW f \in Taken, ScanStep(f)
  PROVE  IInv'
<1> f \in Folder /\ folder[f] \in FolderRow
  BY TargetAssumption DEF IInv, TypeOK
<1>1. CASE ClaimForScan(f)
  <2> DEFINE row == [folder[f] EXCEPT !.status = "detecting", !.lease = "live"]
  <2>1. /\ row \in FolderRow /\ row.exists = folder[f].exists
        /\ row.path = folder[f].path
    BY DEF FolderRow
  <2>2. QED
    BY <1>1, <2>1, ScansStep DEF ClaimForScan
<1>2. CASE FinishScan(f)
  <2> DEFINE status == IF folder[f].enabled /\ ~Halted(f) THEN "watching"
                       ELSE folder[f].status
             row == [folder[f] EXCEPT !.lease = "none", !.status = status]
  <2>1. /\ row \in FolderRow /\ row.exists = folder[f].exists
        /\ row.path = folder[f].path
    BY DEF FolderRow
  <2>2. Scans(f, row)
    BY <1>2 DEF FinishScan
  <2>3. QED
    BY <2>1, <2>2, ScansStep
<1>3. CASE RenewScanLease(f)
  <2> DEFINE row == [folder[f] EXCEPT !.lease = "live"]
  <2>1. /\ row \in FolderRow /\ row.exists = folder[f].exists
        /\ row.path = folder[f].path
    BY DEF FolderRow
  <2>2. QED
    BY <1>3, <2>1, ScansStep DEF RenewScanLease
<1>4. CASE Touch(f)
  BY <1>4, ScansStep DEF Touch
<1>5. CASE FindWork(f) \/ LeaseLapses(f)
  <2>1. PICK row \in FolderRow :
          /\ \A k \in Field : row[k] = folder[f][k]
          /\ row.exists = folder[f].exists
          /\ folder' = [folder EXCEPT ![f] = row]
    BY <1>5 DEF FindWork, LeaseLapses, FolderRow, Field
  <2>2. /\ folder' \in [Folder -> FolderRow]
        /\ \A g \in Folder : folder'[g] = IF g = f THEN row ELSE folder[g]
        /\ call' = call /\ route' = route /\ up' = up
    BY <1>5, <2>1 DEF FindWork, LeaseLapses, IInv, TypeOK
  <2>3. /\ \A g \in Folder : \A k \in Field : folder'[g][k] = folder[g][k]
        /\ \A g \in Folder : folder'[g].exists = folder[g].exists
    BY <2>1, <2>2
  <2>4. \A c \in Call : Sound(call[c], folder')
    BY <2>3, SameSound DEF IInv
  <2>5. QED
    BY <2>2, <2>4 DEF IInv, TypeOK
<1>6. QED
  BY <1>1, <1>2, <1>3, <1>4, <1>5 DEF ScanStep

LEMMA ProcessStepInv ==
  ASSUME IInv, ProcessDies \/ StartProcess
  PROVE  IInv'
<1>1. CASE ProcessDies
  <2>1. \A c \in Call : call'[c] = NoCall
    BY <1>1 DEF ProcessDies
  <2>2. call' \in [Call -> CallState]
    BY <1>1, NoCallType DEF ProcessDies
  <2>3. QED
    BY <1>1, <2>1, <2>2, NoCallSound DEF ProcessDies, IInv, TypeOK, NoCall
<1>2. CASE StartProcess
  <2>1. \A f \in Folder : Repaired(f) \in FolderRow
    BY DEF IInv, TypeOK, Repaired, FolderRow
  <2>2. TypeOK'
    BY <1>2, <2>1 DEF StartProcess, IInv, TypeOK, Disjoint
  <2>3. \A c \in Call : call[c].op = "none" /\ Sound(call[c], folder')
    BY <1>2 DEF StartProcess, IInv, Sound, Composes, Compared, Staged
  <2>4. QED
    BY <1>2, <2>2, <2>3 DEF StartProcess, IInv
<1>3. QED
  BY <1>1, <1>2

LEMMA InvInit == Init => IInv
<1> SUFFICES ASSUME Init PROVE IInv
  OBVIOUS
<1>1. TypeOK
  BY NoFolderType, NoRouteType, NoCallType DEF Init, TypeOK
<1>2. \A c \in Call : Sound(call[c], folder)
  BY NoCallSound DEF Init
<1>3. QED
  BY <1>1, <1>2 DEF Init, IInv

LEMMA InvNext == IInv /\ [Next]_vars => IInv'
<1> SUFFICES ASSUME IInv, [Next]_vars PROVE IInv'
  OBVIOUS
<1>1. CASE UNCHANGED vars
  BY <1>1 DEF vars, IInv, TypeOK
<1>2. ASSUME NEW c \in Call,
             \/ CreateStep(c) \/ UpdateStep(c) \/ DeleteStep(c)
             \/ RerouteStep(c) \/ CheckPath(c) \/ CallFails(c)
      PROVE  IInv'
  BY <1>2, CreateStepInv, UpdateStepInv, DeleteStepInv, RerouteStepInv,
     CheckPathInv, FailsStep DEF CallFails
<1>3. ASSUME NEW r \in Route, CreateRoute(r) \/ DeleteRoute(r) PROVE IInv'
  BY <1>3, RouteStepInv
<1>4. ASSUME NEW f \in Taken, ScanStep(f) PROVE IInv'
  BY <1>4, ScanStepInv
<1>5. CASE ProcessDies \/ StartProcess
  BY <1>5, ProcessStepInv
<1>6. QED
  BY <1>1, <1>2, <1>3, <1>4, <1>5 DEF Next

LEMMA Inv == Spec => []IInv
BY InvInit, InvNext, PTL DEF Spec

(* Every row, and all that a call has in hand, is of its type. *)
THEOREM TypeCorrect == Spec => []TypeOK
<1>1. IInv => TypeOK
  BY DEF IInv
<1>2. QED
  BY Inv, <1>1, PTL

-----------------------------------------------------------------------------
(* Which steps write a folder.                                             *)

(* The update c succeeds. *)
Commits(c) ==
  /\ At(c, "update", "write") /\ call[c].of \in Folder /\ Current(c)
  /\ Unique(call[c].of, call[c].row.path)
  /\ Write(c, call[c].of, Committed(c), {call[c].of})

(* The creation c succeeds, with f as its folder. *)
Inserts(c, f) ==
  /\ At(c, "create", "write") /\ f \in Folder \ Existing
  /\ Unique(f, call[c].row.path)
  /\ Write(c, f, call[c].row, {f})

(* A folder stays where it is; if it moves, without its work. *)
Stays(f) ==
  /\ folder'[f].exists = folder[f].exists
  /\ folder'[f].path = folder[f].path
  /\ \/ folder'[f].dest = folder[f].dest /\ folder'[f].steps = folder[f].steps
     \/ ~folder'[f].work

LEMMA CommitOrFail ==
  ASSUME IInv, NEW c \in Call, CommitUpdate(c)
  PROVE  Commits(c) \/ Fails(c)
BY DEF CommitUpdate, Commits, Current, IInv, Sound, Composes, At

LEMMA InsertOrFail ==
  ASSUME NEW c \in Call, Insert(c)
  PROVE  Fails(c) \/ \E f \in Folder : Inserts(c, f)
BY DEF Insert, Inserts

LEMMA StepsOnFolder ==
  ASSUME IInv, [Next]_vars, NEW f \in Folder
  PROVE  \/ \E c \in Call : Commits(c) /\ call[c].of = f
         \/ \E c \in Call : Inserts(c, f)
         \/ ~folder'[f].exists
         \/ Stays(f)
<1>1. folder \in [Folder -> FolderRow]
  BY DEF IInv, TypeOK
<1>2. folder'[f] = folder[f] => Stays(f)
  BY DEF Stays
<1>3. ASSUME NEW c \in Call, Commits(c), call[c].of # f
      PROVE  folder'[f] = folder[f]
  BY <1>1, <1>3 DEF Commits, Write
<1>4. ASSUME NEW c \in Call, NEW g \in Folder, Inserts(c, g)
      PROVE  Inserts(c, f) \/ folder'[f] = folder[f]
  BY <1>1, <1>4 DEF Inserts, Write
<1>5. ASSUME NEW c \in Call, CommitDelete(c)
      PROVE  ~folder'[f].exists \/ folder'[f] = folder[f]
  BY <1>1, <1>5 DEF CommitDelete, Write, Fails, NoFolder
<1>6. ASSUME NEW c \in Call, CommitReroute(c)
      PROVE  Stays(f)
  <2> DEFINE dest == call[c].row.dest
             moving == IF call[c].moved THEN Linked(call[c].of) ELSE {}
  <2>1. dest \in Dest
    BY DEF IInv, TypeOK, CallState, FolderRow
  <2>2. \/ folder' = folder
        \/ folder' = [g \in Folder |->
              IF g \in moving
                THEN [folder[g] EXCEPT !.dest = dest, !.work = FALSE]
                ELSE folder[g]]
    BY <1>6 DEF CommitReroute, Fails
  <2> HIDE DEF dest, moving
  <2>3. QED
    BY <2>1, <2>2, Rerouted DEF Stays, IInv
<1>7. ASSUME NEW g \in Taken, ScanStep(g)
      PROVE  Stays(f)
  <2>1. g \in Folder /\ folder[g] \in FolderRow /\ folder[f] \in FolderRow
    BY <1>1, TargetAssumption
  <2>2. PICK row \in FolderRow :
          /\ folder' = [folder EXCEPT ![g] = row]
          /\ row.exists = folder[g].exists /\ row.path = folder[g].path
          /\ row.dest = folder[g].dest /\ row.steps = folder[g].steps
    <3> DEFINE Written(row) ==
                 /\ row \in FolderRow
                 /\ folder' = [folder EXCEPT ![g] = row]
                 /\ row.exists = folder[g].exists /\ row.path = folder[g].path
                 /\ row.dest = folder[g].dest /\ row.steps = folder[g].steps
    <3>1. CASE ClaimForScan(g)
      <4>1. Written([folder[g] EXCEPT !.status = "detecting", !.lease = "live"])
        BY <2>1, <3>1 DEF ClaimForScan, Scans, FolderRow
      <4>2. QED
        BY <4>1
    <3>2. CASE FinishScan(g)
      <4> DEFINE status == IF folder[g].enabled /\ ~Halted(g) THEN "watching"
                           ELSE folder[g].status
      <4>1. folder' = [folder EXCEPT ![g] = [folder[g] EXCEPT
                         !.lease = "none", !.status = status]]
        BY <3>2 DEF FinishScan, Scans
      <4>2. status \in {"watching", "detecting", "stopped", "paused"}
        BY <2>1 DEF FolderRow
      <4>3. Written([folder[g] EXCEPT !.lease = "none", !.status = status])
        BY <2>1, <4>1, <4>2 DEF FolderRow
      <4>4. QED
        BY <4>3
    <3>3. CASE RenewScanLease(g)
      <4>1. Written([folder[g] EXCEPT !.lease = "live"])
        BY <2>1, <3>3 DEF RenewScanLease, Scans, FolderRow
      <4>2. QED
        BY <4>1
    <3>4. CASE Touch(g)
      BY <2>1, <3>4 DEF Touch, Scans
    <3>5. CASE FindWork(g)
      <4>1. Written([folder[g] EXCEPT !.work = TRUE])
        BY <2>1, <3>5 DEF FindWork, FolderRow
      <4>2. QED
        BY <4>1
    <3>6. CASE LeaseLapses(g)
      <4>1. Written([folder[g] EXCEPT !.lease = "lapsed"])
        BY <2>1, <3>6 DEF LeaseLapses, FolderRow
      <4>2. QED
        BY <4>1
    <3>7. QED
      BY <1>7, <3>1, <3>2, <3>3, <3>4, <3>5, <3>6 DEF ScanStep
  <2>3. folder'[f] = IF f = g THEN row ELSE folder[f]
    BY <1>1, <2>2
  <2>4. QED
    BY <2>2, <2>3 DEF Stays
<1>8. CASE StartProcess
  BY <1>1, <1>8 DEF StartProcess, Repaired, Stays, FolderRow
<1>9. ASSUME NEW c \in Call,
             \/ BeginCreate(c) \/ BeginUpdate(c) \/ ReadRoute(c)
             \/ BeginDelete(c) \/ BeginReroute(c) \/ CheckPath(c)
             \/ CallFails(c) \/ Fails(c)
      PROVE  folder' = folder
  BY <1>9 DEF BeginCreate, BeginUpdate, ReadRoute, BeginDelete, BeginReroute,
     CheckPath, CallFails, Fails, Proceed
<1>10. ASSUME NEW r \in Route, CreateRoute(r) \/ DeleteRoute(r)
      PROVE  folder' = folder
  BY <1>10 DEF CreateRoute, DeleteRoute
<1>11. CASE ProcessDies \/ UNCHANGED vars
  BY <1>2, <1>11 DEF ProcessDies, vars
<1>12. ASSUME NEW c \in Call,
              \/ CreateStep(c) \/ UpdateStep(c) \/ DeleteStep(c)
              \/ RerouteStep(c) \/ CheckPath(c) \/ CallFails(c)
       PROVE  \/ Commits(c) /\ call[c].of = f
              \/ Inserts(c, f)
              \/ ~folder'[f].exists
              \/ Stays(f)
  <2> Fails(c) => Stays(f)
    BY <1>2, <1>9
  <2>1. CASE Insert(c)
    BY <1>2, <1>4, <1>9, <2>1, InsertOrFail
  <2>2. CASE CommitUpdate(c)
    BY <1>2, <1>3, <1>9, <2>2, CommitOrFail
  <2>3. CASE CommitDelete(c)
    BY <1>2, <1>5, <2>3
  <2>4. CASE CommitReroute(c)
    BY <1>6, <2>4
  <2>5. QED
    BY <1>2, <1>9, <1>12, <2>1, <2>2, <2>3, <2>4
       DEF CreateStep, UpdateStep, DeleteStep, RerouteStep
<1>13. QED
  BY <1>2, <1>7, <1>8, <1>10, <1>11, <1>12 DEF Next

(* An update that is over and has changed a folder has succeeded. *)
LEMMA UpdateEnds ==
  ASSUME IInv, [Next]_vars, NEW c \in Call, call[c].op = "update",
         call'[c].op = "none", folder' # folder
  PROVE  Commits(c)
<1>1. ASSUME NEW written, NEW P \in SUBSET Folder
      PROVE  Told(written, P)[c].op = "update"
  BY <1>1 DEF Told, OutdatedCall, NoCall, IInv, TypeOK, CallState
<1>2. ASSUME NEW d \in Call, NEW written, NEW P \in SUBSET Folder,
             call' = Ends(d, Told(written, P))
      PROVE  d = c
  <2>1. Told(written, P) \in [Call -> CallState]
    BY <1>2, ToldType DEF IInv
  <2>2. QED
    BY <1>1, <1>2, <2>1 DEF Ends
<1>3. ASSUME NEW d \in Call, NEW f, NEW row, NEW P \in SUBSET Folder,
             Write(d, f, row, P)
      PROVE  d = c
  BY <1>2, <1>3 DEF Write
<1>4. ASSUME NEW d \in Call, CommitUpdate(d) PROVE Commits(c)
  <2>1. Commits(d)
    BY <1>4, CommitOrFail DEF Fails
  <2>2. Write(d, call[d].of, Committed(d), {call[d].of})
        /\ {call[d].of} \in SUBSET Folder
    BY <2>1 DEF Commits
  <2>3. d = c
    BY <1>3, <2>2
  <2>4. QED
    BY <2>1, <2>3
<1>5. ASSUME NEW d \in Call PROVE ~Insert(d)
  <2> SUFFICES ASSUME Insert(d) PROVE FALSE
    OBVIOUS
  <2>1. PICK f \in Folder : Inserts(d, f)
    BY InsertOrFail DEF Fails
  <2>2. call[d].op = "create" /\ Write(d, f, call[d].row, {f})
    BY <2>1 DEF Inserts, At
  <2>3. d = c
    BY <1>3, <2>2
  <2>4. QED
    BY <2>2, <2>3
<1>6. ASSUME NEW d \in Call PROVE ~CommitDelete(d)
  <2> SUFFICES ASSUME CommitDelete(d) PROVE FALSE
    OBVIOUS
  <2>1. call[d].op = "delete" /\ Write(d, call[d].of, NoFolder, {})
    BY DEF CommitDelete, At, Fails
  <2>2. d = c
    BY <1>3, <2>1
  <2>3. QED
    BY <2>1, <2>2
<1>7. ASSUME NEW d \in Call PROVE ~CommitReroute(d)
  <2> SUFFICES ASSUME CommitReroute(d) PROVE FALSE
    OBVIOUS
  <2> DEFINE moving == IF call[d].moved THEN Linked(call[d].of) ELSE {}
             written == {call[d].of} \cup moving
  <2>1. call[d].op = "reroute" /\ call' = Ends(d, Told(written, {}))
    BY DEF CommitReroute, At, Fails
  <2> HIDE DEF written
  <2>2. d = c
    BY <1>2, <2>1
  <2>3. QED
    BY <2>1, <2>2
<1>8. ASSUME NEW f \in Taken PROVE ~ScanStep(f)
  <2> SUFFICES ASSUME ScanStep(f) PROVE FALSE
    OBVIOUS
  <2>1. call' = Told({f}, {}) \/ call' = call
    BY DEF ScanStep, ClaimForScan, FinishScan, RenewScanLease, Touch, FindWork,
       LeaseLapses, Scans
  <2>2. QED
    BY <1>1, <2>1
<1>9. ~StartProcess
  BY DEF StartProcess
<1>10. ASSUME NEW d \in Call
       PROVE  ~(\/ BeginCreate(d) \/ BeginUpdate(d) \/ ReadRoute(d)
                \/ BeginDelete(d) \/ BeginReroute(d) \/ CheckPath(d)
                \/ CallFails(d))
  BY DEF BeginCreate, BeginUpdate, ReadRoute, BeginDelete, BeginReroute,
     CheckPath, CallFails, Fails, Proceed
<1>11. ASSUME NEW r \in Route PROVE ~(CreateRoute(r) \/ DeleteRoute(r))
  BY DEF CreateRoute, DeleteRoute
<1>12. ~ProcessDies /\ ~UNCHANGED vars
  BY DEF ProcessDies, vars
<1>13. QED
  BY <1>4, <1>5, <1>6, <1>7, <1>8, <1>9, <1>10, <1>11, <1>12
     DEF Next, CreateStep, UpdateStep, DeleteStep, RerouteStep

-----------------------------------------------------------------------------
(* The properties.                                                         *)

(* Update of the folder service reads the row and writes all of it later:  *)
(* the comparison of updated_at in the transaction refuses it when anybody *)
(* has written the row meanwhile, so that every field which the request    *)
(* does not name is written back with the value it has.                    *)
THEOREM UpdatesCompose == Spec => EditsCompose
<1>1. ASSUME IInv, [Next]_vars, NEW c \in Call, NEW f \in Folder,
             call[c].op = "update", call[c].of = f, call'[c].op = "none",
             folder'[f] # folder[f],
             NEW k \in Field, k \notin Concerned(call[c].asked)
      PROVE  folder'[f][k] = folder[f][k]
  <2>1. Commits(c)
    BY <1>1, UpdateEnds
  <2>2. folder'[f] = Committed(c) /\ call[c].fresh
    BY <1>1, <2>1 DEF Commits, Write, Current, IInv, TypeOK
  <2>3. Committed(c)[k] = call[c].row[k]
    BY <1>1, CommittedRow DEF IInv
  <2>4. call[c].row[k] = folder[f][k]
    BY <1>1, <2>2 DEF IInv, Sound, Composes
  <2>5. QED
    BY <2>2, <2>3, <2>4
<1>2. IInv /\ [Next]_vars
        => [\A c \in Call, f \in Folder :
              /\ call[c].op = "update" /\ call[c].of = f
              /\ call'[c].op = "none" /\ folder'[f] # folder[f]
              => \A k \in Field \ Concerned(call[c].asked) :
                   folder'[f][k] = folder[f][k]]_vars
  BY <1>1
<1>3. QED
  BY <1>2, Inv, PTL DEF Spec, EditsCompose

(* Whether an update or a reroute moves a folder is decided on what was    *)
(* read before its transaction.  As nobody has written the row since, that *)
(* is still true when it cancels the tasks and resets the snapshots: a     *)
(* folder that gets another destination has no work of the old one left.   *)
THEOREM MovedFoldersStartOver == Spec => OldWorkDropped
<1>1. ASSUME IInv, [Next]_vars, NEW f \in Existing \cap Existing',
             \/ folder'[f].dest # folder[f].dest
             \/ folder'[f].steps # folder[f].steps
      PROVE  ~folder'[f].work
  <2>1. f \in Folder /\ folder[f].exists /\ folder'[f].exists
    BY <1>1 DEF Existing
  <2>2. CASE \E c \in Call : Commits(c) /\ call[c].of = f
    <3>1. PICK c \in Call : Commits(c) /\ call[c].of = f
      BY <2>2
    <3>2. folder'[f] = Committed(c) /\ call[c].fresh /\ call[c].op = "update"
      BY <1>1, <2>1, <3>1 DEF Commits, Write, Current, At, IInv, TypeOK
    <3>3. /\ Committed(c).work => ~call[c].moved
          /\ Committed(c).dest = call[c].row.dest
          /\ Committed(c).steps = call[c].row.steps
      BY <1>1, <2>1, <3>1, CommittedRow DEF IInv, Field
    <3>4. ~call[c].moved => /\ call[c].row.dest = folder[f].dest
                            /\ call[c].row.steps = folder[f].steps
      BY <1>1, <3>1, <3>2 DEF IInv, Sound, Composes
    <3>5. QED
      BY <1>1, <3>2, <3>3, <3>4
  <2>3. CASE \E c \in Call : Inserts(c, f)
    BY <2>1, <2>3 DEF Inserts, Existing
  <2>4. CASE Stays(f)
    BY <1>1, <2>4 DEF Stays
  <2>5. QED
    BY <1>1, <2>1, <2>2, <2>3, <2>4, StepsOnFolder
<1>2. IInv /\ [Next]_vars
        => [\A f \in Existing \cap Existing' :
              \/ folder'[f].dest # folder[f].dest
              \/ folder'[f].steps # folder[f].steps
              => ~folder'[f].work]_vars
  BY <1>1
<1>3. QED
  BY <1>2, Inv, PTL DEF Spec, OldWorkDropped

(* ensurePathDoesNotOverlap compares a path with those it finds; what was  *)
(* set after it has looked is all that can overlap, and the unique index   *)
(* keeps even that from being the same directory.                          *)
THEOREM PathsCompared == Spec => PathsChecked
<1>1. ASSUME IInv, [Next]_vars, NEW f \in Existing', NEW g \in Existing',
             f # g, ~(f \in Existing /\ folder'[f].path = folder[f].path),
             Overlap(folder'[f].path, folder'[g].path)
      PROVE  /\ folder'[f].path # folder'[g].path
             /\ \E c \in Call : /\ call[c].op # "none" /\ call'[c].op = "none"
                                /\ g \in call[c].unseen
  <2>1. /\ f \in Folder /\ folder'[f].exists
        /\ g \in Folder /\ folder'[g].exists
    BY <1>1 DEF Existing
  <2>2. PICK c \in Call, row \in FolderRow :
          /\ Write(c, f, row, {f}) /\ row.path = call[c].row.path
          /\ Unique(f, row.path) /\ call[c].op \in {"create", "update"}
          /\ call[c].pc = "write" /\ call[c].fresh
          /\ call[c].of \in {f, None}
    <3>1. CASE \E c \in Call : Commits(c) /\ call[c].of = f
      <4>1. PICK c \in Call : Commits(c) /\ call[c].of = f
        BY <3>1
      <4>2. /\ Committed(c) \in FolderRow
            /\ Committed(c).path = call[c].row.path
        BY <1>1, <2>1, <4>1, CommittedRow DEF IInv, Field
      <4>3. QED
        BY <4>1, <4>2 DEF Commits, At, Current
    <3>2. CASE \E c \in Call : Inserts(c, f)
      <4>1. PICK c \in Call : Inserts(c, f)
        BY <3>2
      <4>2. call[c].row \in FolderRow
        BY <1>1 DEF IInv, TypeOK, CallState
      <4>3. call[c].of = None /\ call[c].fresh
        BY <1>1, <4>1 DEF IInv, Sound, Staged, Inserts, At
      <4>4. QED
        BY <4>1, <4>2, <4>3 DEF Inserts, At
    <3>3. ~Stays(f)
      BY <1>1, <2>1 DEF Stays, Existing
    <3>4. QED
      BY <1>1, <2>1, <3>1, <3>2, <3>3, StepsOnFolder
  <2>3. folder'[f].path = call[c].row.path /\ folder'[g] = folder[g]
    BY <1>1, <2>1, <2>2 DEF Write, IInv, TypeOK
  <2>4. g \in Existing /\ g # call[c].of
    BY <1>1, <2>1, <2>2, <2>3, TargetAssumption DEF Existing
  <2>5. g \in call[c].unseen
    BY <1>1, <2>1, <2>2, <2>3, <2>4 DEF IInv, Sound, Compared, Existing
  <2>6. call'[c].op = "none"
    <3>1. Told({f}, {f}) \in [Call -> CallState]
      BY <1>1, <2>1, ToldType DEF IInv
    <3>2. QED
      BY <2>2, <3>1 DEF Write, Ends, NoCall
  <2>7. folder'[f].path # folder'[g].path
    BY <1>1, <2>2, <2>3, <2>4 DEF Unique
  <2>8. QED
    BY <2>2, <2>5, <2>6, <2>7
<1>2. IInv /\ [Next]_vars
        => [\A f, g \in Existing' :
              /\ f # g
              /\ ~(f \in Existing /\ folder'[f].path = folder[f].path)
              /\ Overlap(folder'[f].path, folder'[g].path)
              => /\ folder'[f].path # folder'[g].path
                 /\ \E c \in Call : /\ call[c].op # "none" /\ call'[c].op = "none"
                                    /\ g \in call[c].unseen]_vars
  BY <1>1
<1>3. QED
  BY <1>2, Inv, PTL DEF Spec, PathsChecked

=============================================================================
