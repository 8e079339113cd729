--------------------------- MODULE SnapshotProofs ---------------------------
(***************************************************************************)
(* For any sets of clients and keys: the file under its final name is a     *)
(* whole save, whatever two savers, failures and kills do to the temporary *)
(* file (Inv); files and copies hold what their types say (Typed); and     *)
(* only what a save raced with is missing from the file when no change is  *)
(* counted (Sound).                                                        *)
(***************************************************************************)
EXTENDS Snapshot, Recursion

(* What a save record is; the values it copied play no part, so that they    *)
(* need no type.                                                           *)
Fields == {"at", "file", "todo", "data", "ttl", "alone", "touched"}

RecordsOK ==
  /\ DOMAIN save = Savers
  /\ \A s \in Savers :
       /\ DOMAIN save[s] = Fields
       /\ save[s].at \in Labels /\ save[s].alone \in BOOLEAN
       /\ save[s].file \in File \cup {NoFile}
       /\ save[s].at \in {"idle", "reset"} => save[s].file = NoFile /\ ~save[s].alone

(* Every file is a sequence of whatever cells. *)
FilesOK ==
  /\ {temp, dump} \subseteq File \cup {NoFile}
  /\ DOMAIN content = File
  /\ \A f \in File : \E S : content[f] \in Seq(S)
  /\ clean \in BOOLEAN

(* Who is alone shares its file with nobody, and nobody writes to the file   *)
(* that a clean save left.                                                 *)
Apart ==
  /\ temp # NoFile => temp # dump
  /\ \A s \in Savers : save[s].alone =>
       /\ save[s].file \in File
       /\ \A o \in Savers \ {s} : save[o].file # save[s].file
  /\ clean /\ dump # NoFile => \A s \in Savers : save[s].file # dump

(* How far the file of a saver that is alone has got. *)
Partial(cells, todo) ==
  /\ Len(cells) >= 1 /\ cells[1] = Magic
  /\ \A i, j \in 2 .. Len(cells) :
       cells[i].t = "entry" /\ cells[i].key \notin todo /\ (i # j => cells[i].key # cells[j].key)

Progress(sv, cells) ==
  /\ sv.at = "header" => cells = <<>>
  /\ sv.at \in {"copy_data", "copy_ttl"} => cells = <<Magic>>
  /\ sv.at = "write" => Partial(cells, sv.todo)
  /\ sv.at = "rename" => Whole(cells)

AloneProgress == \A s \in Savers : save[s].alone => Progress(save[s], content[save[s].file])

Inv == RecordsOK /\ FilesOK /\ Apart /\ AloneProgress /\ SavedFileIsWhole

-----------------------------------------------------------------------------
(* Appending to a sequence of whatever. *)
LEMMA AppendCell ==
  ASSUME NEW S, NEW q \in Seq(S), NEW e
  PROVE  /\ Append(q, e) \in Seq(S \cup {e})
         /\ Len(q) \in Nat /\ Len(Append(q, e)) = Len(q) + 1
         /\ \A i \in 1 .. Len(q) : Append(q, e)[i] = q[i]
         /\ Append(q, e)[Len(q) + 1] = e
<1>1. q \in Seq(S \cup {e})
  OBVIOUS
<1> QED BY <1>1

LEMMA HeaderIsPartial ==
  ASSUME NEW todo PROVE Partial(<<Magic>>, todo)
BY DEF Partial

LEMMA EntryKeepsPartial ==
  ASSUME NEW S, NEW q \in Seq(S), NEW todo, NEW k \in todo, NEW v, NEW d, Partial(q, todo)
  PROVE  Partial(Append(q, Entry(k, v, d)), todo \ {k})
<1> DEFINE e == Entry(k, v, d)
<1> DEFINE r == Append(q, e)
<1>1. /\ Len(q) \in Nat /\ Len(r) = Len(q) + 1 /\ r[Len(q) + 1] = e
      /\ \A i \in 1 .. Len(q) : r[i] = q[i]
  BY AppendCell
<1>2. e.t = "entry" /\ e.key = k
  BY DEF Entry
<1>3. /\ Len(q) >= 1 /\ q[1] = Magic
      /\ \A i, j \in 2 .. Len(q) :
           q[i].t = "entry" /\ q[i].key \notin todo /\ (i # j => q[i].key # q[j].key)
  BY DEF Partial
<1> HIDE DEF e, r
<1>4. \A i \in 2 .. Len(r) : \/ i \in 2 .. Len(q) /\ r[i] = q[i]
                             \/ i = Len(q) + 1 /\ r[i] = e
  BY <1>1
<1>5. Len(r) >= 1 /\ r[1] = Magic
  BY <1>1, <1>3
<1>6. ASSUME NEW i \in 2 .. Len(r), NEW j \in 2 .. Len(r)
      PROVE  r[i].t = "entry" /\ r[i].key \notin todo \ {k} /\ (i # j => r[i].key # r[j].key)
  BY <1>2, <1>3, <1>4
<1> QED BY <1>5, <1>6 DEF Partial, r, e

LEMMA EofMakesWhole ==
  ASSUME NEW S, NEW q \in Seq(S), Partial(q, {})
  PROVE  Whole(Append(q, Eof))
<1> DEFINE r == Append(q, Eof)
<1>1. /\ Len(q) \in Nat /\ Len(r) = Len(q) + 1 /\ r[Len(q) + 1] = Eof
      /\ \A i \in 1 .. Len(q) : r[i] = q[i]
  BY AppendCell
<1> HIDE DEF r
<1>2. 2 .. Len(r) - 1 = 2 .. Len(q)
  BY <1>1
<1> QED BY <1>1, <1>2 DEF Partial, Whole, r

-----------------------------------------------------------------------------
(* What a saver that is not at work, or only notes keys, keeps. *)
Same(s) ==
  /\ DOMAIN save'[s] = Fields
  /\ save'[s].at = save[s].at /\ save'[s].file = save[s].file
  /\ save'[s].alone = save[s].alone /\ save'[s].todo = save[s].todo

LEMMA NotedIsSame ==
  ASSUME RecordsOK, NEW s \in Savers, NEW keys, save'[s] = Noted(s, keys)
  PROVE  Same(s)
<1>1. CASE save[s].alone /\ save[s].at # "reset"
  <2>1. save'[s] = [save[s] EXCEPT !.touched = @ \cup keys]
    BY <1>1 DEF Noted
  <2> QED BY <2>1 DEF RecordsOK, Same, Fields
<1>2. CASE ~(save[s].alone /\ save[s].at # "reset")
  BY <1>2 DEF Noted, RecordsOK, Same
<1> QED BY <1>1, <1>2

LEMMA NobodySaves ==
  ASSUME Inv, DOMAIN save' = Savers, \A s \in Savers : Same(s), UNCHANGED files, clean' = clean
  PROVE  Inv'
<1>1. temp' = temp /\ dump' = dump /\ content' = content
  BY DEF files
<1>2. RecordsOK'
  BY DEF Inv, RecordsOK, Same
<1>3. FilesOK'
  BY <1>1 DEF Inv, FilesOK
<1>4. Apart'
  BY <1>1 DEF Inv, Apart, Same
<1>5. AloneProgress'
  BY <1>1 DEF Inv, AloneProgress, Progress, Same
<1>6. SavedFileIsWhole'
  BY <1>1 DEF Inv, SavedFileIsWhole
<1> QED BY <1>2, <1>3, <1>4, <1>5, <1>6 DEF Inv

LEMMA Stutters ==
  ASSUME Inv, UNCHANGED <<save, files, clean>>
  PROVE  Inv'
BY NobodySaves DEF Inv, RecordsOK, Same

-----------------------------------------------------------------------------
(* A step of one saver that keeps its file, while the others at most note   *)
(* keys: content changes in that file only, and only if it is alone.        *)
OneWorks(s) ==
  /\ DOMAIN save' = Savers
  /\ \A o \in Savers \ {s} : Same(o)
  /\ DOMAIN save'[s] = Fields
  /\ save'[s].at \in Labels \ {"idle", "reset"} /\ save[s].at \notin {"idle", "reset"}
  /\ save'[s].file = save[s].file /\ save'[s].alone = save[s].alone
  /\ temp' = temp /\ dump' = dump /\ clean' = clean
  /\ DOMAIN content' = File
  /\ \A f \in File : ~(save[s].alone /\ f = save[s].file) => content'[f] = content[f]

LEMMA OneWorksKeeps ==
  ASSUME Inv, NEW s \in Savers, OneWorks(s),
         save[s].alone => /\ \E S : content'[save[s].file] \in Seq(S)
                          /\ Progress(save'[s], content'[save[s].file])
  PROVE  Inv'
<1> USE DEF Inv, OneWorks
<1>1. RecordsOK'
  BY DEF RecordsOK, Same
<1>2. FilesOK'
  <2>1. ASSUME NEW f \in File PROVE \E S : content'[f] \in Seq(S)
    <3>1. CASE save[s].alone /\ f = save[s].file
      BY <3>1
    <3>2. CASE ~(save[s].alone /\ f = save[s].file)
      BY <3>2 DEF FilesOK
    <3> QED BY <3>1, <3>2
  <2> QED BY <2>1 DEF FilesOK
<1>3. \A o \in Savers : save'[o].file = save[o].file /\ save'[o].alone = save[o].alone
  BY DEF Same
<1>4. Apart'
  BY <1>3 DEF Apart
<1>5. AloneProgress'
  <2>1. ASSUME NEW o \in Savers \ {s}, save'[o].alone
        PROVE  Progress(save'[o], content'[save'[o].file])
    <3>1. save[o].alone /\ save[o].file \in File /\ (save[s].alone => save[o].file # save[s].file)
      BY <1>3, <2>1 DEF Apart
    <3>2. content'[save'[o].file] = content[save[o].file]
      BY <1>3, <3>1
    <3>3. Progress(save[o], content[save[o].file])
      BY <3>1 DEF AloneProgress
    <3> QED BY <3>2, <3>3 DEF Progress, Same
  <2> QED BY <1>3, <2>1 DEF AloneProgress
<1>6. SavedFileIsWhole'
  <2>1. SUFFICES ASSUME dump # NoFile, clean PROVE Whole(content'[dump])
    BY DEF SavedFileIsWhole
  <2>2. dump \in File /\ save[s].file # dump
    BY <2>1 DEF FilesOK, Apart
  <2>3. content'[dump] = content[dump]
    BY <2>2
  <2> QED BY <2>1, <2>3 DEF SavedFileIsWhole
<1> QED BY <1>1, <1>2, <1>4, <1>5, <1>6

(* The record of one saver after it changes some fields. *)
LEMMA OtherSavers ==
  ASSUME RecordsOK, NEW s \in Savers, NEW r, save' = [save EXCEPT ![s] = r]
  PROVE  /\ DOMAIN save' = Savers /\ save'[s] = r
         /\ \A o \in Savers \ {s} : save'[o] = save[o] /\ Same(o)
BY DEF RecordsOK, Same

LEMMA CopiesKeep ==
  ASSUME Inv, NEW s \in Savers, CopyData(s) \/ CopyTtl(s)
  PROVE  Inv'
<1>1. PICK r : /\ save' = [save EXCEPT ![s] = r]
               /\ DOMAIN r = Fields /\ r.file = save[s].file /\ r.alone = save[s].alone
               /\ \/ r.at = save[s].at /\ save[s].at \in {"copy_data", "copy_ttl"}
                  \/ r.at = "copy_ttl" /\ save[s].at = "copy_data"
                  \/ r.at = "write" /\ save[s].at = "copy_ttl"
  <2>1. CASE CopyData(s)
    <3>1. PICK k \in save[s].todo :
            save' = [save EXCEPT ![s].data[k] = data[k],
                                 ![s].todo = IF save[s].todo = {k} THEN Key ELSE @ \ {k},
                                 ![s].at = IF save[s].todo = {k} THEN "copy_ttl" ELSE @]
      BY <2>1 DEF CopyData
    <3> DEFINE todo == IF save[s].todo = {k} THEN Key ELSE save[s].todo \ {k}
               at == IF save[s].todo = {k} THEN "copy_ttl" ELSE save[s].at
               copy == [save[s].data EXCEPT ![k] = data[k]]
               r == [[[save[s] EXCEPT !.data = copy] EXCEPT !.todo = todo] EXCEPT !.at = at]
    <3>2. save' = [save EXCEPT ![s] = r]
      BY <3>1 DEF Inv, RecordsOK, Fields
    <3> HIDE DEF todo, copy
    <3>3. DOMAIN r = Fields /\ r.file = save[s].file /\ r.alone = save[s].alone /\ r.at = at
      BY DEF Inv, RecordsOK, Fields
    <3>4. save[s].at = "copy_data" /\ at \in {save[s].at, "copy_ttl"}
      BY <2>1 DEF CopyData, At
    <3> QED BY <3>2, <3>3, <3>4
  <2>2. CASE CopyTtl(s)
    <3>1. PICK k \in save[s].todo :
            save' = [save EXCEPT ![s].ttl[k] = IF save[s].data[k] = Absent THEN NoTtl ELSE ttl[k],
                                 ![s].todo = IF save[s].todo = {k} THEN Kept(save[s].data) ELSE @ \ {k},
                                 ![s].at = IF save[s].todo = {k} THEN "write" ELSE @]
      BY <2>2 DEF CopyTtl
    <3> DEFINE todo == IF save[s].todo = {k} THEN Kept(save[s].data) ELSE save[s].todo \ {k}
               at == IF save[s].todo = {k} THEN "write" ELSE save[s].at
               copy == [save[s].ttl EXCEPT ![k] = IF save[s].data[k] = Absent THEN NoTtl ELSE ttl[k]]
               r == [[[save[s] EXCEPT !.ttl = copy] EXCEPT !.todo = todo] EXCEPT !.at = at]
    <3>2. save' = [save EXCEPT ![s] = r]
      BY <3>1 DEF Inv, RecordsOK, Fields
    <3> HIDE DEF todo, copy
    <3>3. DOMAIN r = Fields /\ r.file = save[s].file /\ r.alone = save[s].alone /\ r.at = at
      BY DEF Inv, RecordsOK, Fields
    <3>4. save[s].at = "copy_ttl" /\ at \in {save[s].at, "write"}
      BY <2>2 DEF CopyTtl, At
    <3> QED BY <3>2, <3>3, <3>4
  <2> QED BY <2>1, <2>2
<1>2. content' = content /\ temp' = temp /\ dump' = dump /\ clean' = clean
  BY DEF CopyData, CopyTtl, files, history
<1>3. OneWorks(s)
  BY <1>1, <1>2, OtherSavers DEF Inv, OneWorks, RecordsOK, FilesOK, Labels
<1>4. ASSUME save[s].alone PROVE Progress(save'[s], content'[save[s].file])
  <2>1. Progress(save[s], content[save[s].file])
    BY <1>4 DEF Inv, AloneProgress
  <2>2. content[save[s].file] = <<Magic>>
    BY <1>1, <2>1 DEF Progress
  <2> QED BY <1>1, <1>2, <2>2, OtherSavers, HeaderIsPartial DEF Inv, Progress
<1>5. save[s].alone => \E S : content'[save[s].file] \in Seq(S)
  BY <1>2 DEF Inv, FilesOK, Apart
<1> QED BY <1>3, <1>4, <1>5, OneWorksKeeps

(* What write_all adds to the file of a saver that is alone. *)
LEMMA CellWritten ==
  ASSUME Inv, NEW s \in Savers, NEW c, WriteCell(s, c), save[s].at \notin {"idle", "reset"}
  PROVE  /\ DOMAIN content' = File
         /\ \A f \in File : ~(save[s].alone /\ f = save[s].file) => content'[f] = content[f]
         /\ save[s].alone => /\ content'[save[s].file] = Append(content[save[s].file], c)
                             /\ \E S : content[save[s].file] \in Seq(S)
                             /\ \E S : content'[save[s].file] \in Seq(S)
                             /\ Progress(save[s], content[save[s].file])
<1>1. CASE ~save[s].alone
  BY <1>1 DEF WriteCell, Inv, FilesOK
<1>2. CASE save[s].alone
  <2>1. save[s].file \in File
    BY <1>2 DEF Inv, Apart
  <2>2. content' = [content EXCEPT ![save[s].file] = Append(@, c)]
    BY <1>2 DEF WriteCell
  <2>3. content'[save[s].file] = Append(content[save[s].file], c)
    BY <2>1, <2>2 DEF Inv, FilesOK
  <2>4. PICK S : content[save[s].file] \in Seq(S)
    BY <2>1 DEF Inv, FilesOK
  <2>5. content'[save[s].file] \in Seq(S \cup {c})
    BY <2>3, <2>4, AppendCell
  <2>6. /\ DOMAIN content' = File
        /\ \A f \in File : f # save[s].file => content'[f] = content[f]
    BY <2>2 DEF Inv, FilesOK
  <2>7. Progress(save[s], content[save[s].file])
    BY <1>2 DEF Inv, AloneProgress
  <2> QED BY <1>2, <2>3, <2>4, <2>5, <2>6, <2>7
<1> QED BY <1>1, <1>2

LEMMA WritesKeep ==
  ASSUME Inv, NEW s \in Savers, WriteHeader(s) \/ WriteEntry(s) \/ WriteEof(s)
  PROVE  Inv'
<1> USE DEF At
<1>1. CASE WriteHeader(s)
  <2> DEFINE r == [save[s] EXCEPT !.at = "copy_data", !.todo = Key]
  <2>1. /\ save[s].at = "header" /\ WriteCell(s, Magic)
        /\ save' = [o \in Savers |-> IF o = s THEN r ELSE Noted(o, Overdue)]
        /\ temp' = temp /\ dump' = dump /\ clean' = clean
    BY <1>1 DEF WriteHeader
  <2>2. DOMAIN r = Fields /\ r.at = "copy_data" /\ r.file = save[s].file /\ r.alone = save[s].alone
    BY DEF Inv, RecordsOK, Fields
  <2>3. save'[s] = r /\ DOMAIN save' = Savers
    BY <2>1
  <2>4. \A o \in Savers \ {s} : Same(o)
    BY <2>1, NotedIsSame DEF Inv
  <2>5. OneWorks(s)
    BY <2>1, <2>2, <2>3, <2>4, CellWritten DEF OneWorks, Labels
  <2>6. ASSUME save[s].alone PROVE content'[save[s].file] = <<Magic>>
    BY <2>1, <2>6, CellWritten DEF Progress
  <2>7. save[s].alone => Progress(save'[s], content'[save[s].file])
    BY <2>2, <2>3, <2>6 DEF Progress
  <2> QED BY <2>1, <2>5, <2>7, CellWritten, OneWorksKeeps
<1>2. CASE WriteEntry(s)
  <2>1. PICK k \in save[s].todo :
          /\ save' = [save EXCEPT ![s].todo = @ \ {k}]
          /\ \/ UNCHANGED content
             \/ WriteCell(s, Entry(k, save[s].data[k], save[s].ttl[k]))
    BY <1>2 DEF WriteEntry
  <2> DEFINE e == Entry(k, save[s].data[k], save[s].ttl[k])
             r == [save[s] EXCEPT !.todo = save[s].todo \ {k}]
             old == content[save[s].file]
  <2>2. save[s].at = "write" /\ temp' = temp /\ dump' = dump /\ clean' = clean
    BY <1>2 DEF WriteEntry, history
  <2>3. /\ DOMAIN r = Fields /\ r.at = "write" /\ r.file = save[s].file /\ r.alone = save[s].alone
        /\ r.todo = save[s].todo \ {k}
    BY <2>2 DEF Inv, RecordsOK, Fields
  <2>4. save' = [save EXCEPT ![s] = r]
    BY <2>1
  <2>5. save'[s] = r /\ DOMAIN save' = Savers /\ \A o \in Savers \ {s} : Same(o)
    BY <2>4, OtherSavers DEF Inv
  <2>6. /\ DOMAIN content' = File
        /\ \A f \in File : ~(save[s].alone /\ f = save[s].file) => content'[f] = content[f]
    BY <2>1, <2>2, CellWritten DEF Inv, FilesOK
  <2>7. OneWorks(s)
    BY <2>2, <2>3, <2>5, <2>6 DEF OneWorks, Labels
  <2>8. ASSUME save[s].alone
        PROVE  /\ Partial(content'[save[s].file], save[s].todo \ {k})
               /\ \E S : content'[save[s].file] \in Seq(S)
    <3>1. PICK S : old \in Seq(S)
      BY <2>8 DEF Inv, FilesOK, Apart
    <3>2. Partial(old, save[s].todo)
      BY <2>2, <2>8 DEF Inv, AloneProgress, Progress
    <3>3. CASE UNCHANGED content
      BY <3>1, <3>2, <3>3 DEF Partial
    <3>4. CASE WriteCell(s, e)
      <4>1. content'[save[s].file] = Append(old, e) /\ \E T : content'[save[s].file] \in Seq(T)
        BY <2>2, <2>8, <3>4, CellWritten
      <4> QED BY <3>1, <3>2, <4>1, EntryKeepsPartial
    <3> QED BY <2>1, <3>3, <3>4
  <2>9. save[s].alone => Progress(save'[s], content'[save[s].file])
    BY <2>3, <2>5, <2>8 DEF Progress
  <2> QED BY <2>7, <2>8, <2>9, OneWorksKeeps
<1>3. CASE WriteEof(s)
  <2> DEFINE r == [[[save[s] EXCEPT !.at = "rename"] EXCEPT !.data = Empty] EXCEPT !.ttl = NoTtls]
             old == content[save[s].file]
  <2>1. /\ save[s].at = "write" /\ save[s].todo = {} /\ WriteCell(s, Eof)
        /\ save' = [save EXCEPT ![s] = r]
        /\ temp' = temp /\ dump' = dump /\ clean' = clean
    BY <1>3 DEF WriteEof, history, Inv, RecordsOK
  <2>2. DOMAIN r = Fields /\ r.at = "rename" /\ r.file = save[s].file /\ r.alone = save[s].alone
    BY DEF Inv, RecordsOK, Fields
  <2>3. save'[s] = r /\ DOMAIN save' = Savers /\ \A o \in Savers \ {s} : Same(o)
    BY <2>1, OtherSavers DEF Inv
  <2>4. OneWorks(s)
    BY <2>1, <2>2, <2>3, CellWritten DEF OneWorks, Labels
  <2>5. ASSUME save[s].alone PROVE Whole(content'[save[s].file])
    <3>1. PICK S : old \in Seq(S)
      BY <2>5 DEF Inv, FilesOK, Apart
    <3>2. Partial(old, {})
      BY <2>1, <2>5 DEF Inv, AloneProgress, Progress
    <3>3. content'[save[s].file] = Append(old, Eof)
      BY <2>1, <2>5, CellWritten
    <3> QED BY <3>1, <3>2, <3>3, EofMakesWhole
  <2>6. save[s].alone => Progress(save'[s], content'[save[s].file])
    BY <2>2, <2>3, <2>5 DEF Progress
  <2> QED BY <2>1, <2>4, <2>6, CellWritten, OneWorksKeeps
<1> QED BY <1>1, <1>2, <1>3

-----------------------------------------------------------------------------
(* Three files are enough for one that has no name and is not open. *)
LEMMA TempFileIsFree ==
  ASSUME Inv, NEW s \in Savers, save[s].at = "idle"
  PROVE  TempFile \in File /\ TempFile # dump /\ TempFile # NoFile
<1> USE NoFileAssumption DEF File
<1>1. CASE temp # NoFile
  BY <1>1 DEF TempFile, Inv, FilesOK, Apart
<1>2. CASE temp = NoFile
  <2>1. PICK o \in Savers : {save[x].file : x \in Savers} = {NoFile, save[o].file}
    <3>1. save[s].file = NoFile
      BY DEF Inv, RecordsOK
    <3>2. PICK o \in Savers : Savers = {s, o}
      BY DEF Savers
    <3> QED BY <3>1, <3>2
  <2>2. \E f \in 1 .. 3 : f \notin {temp, dump} \cup {NoFile, save[o].file}
    <3>1. 1 # NoFile /\ 2 # NoFile /\ 3 # NoFile
      OBVIOUS
    <3>2. 1 \in 1 .. 3 /\ 2 \in 1 .. 3 /\ 3 \in 1 .. 3
      OBVIOUS
    <3> QED BY <1>2, <3>1, <3>2
  <2>3. Unnamed \in 1 .. 3 /\ Unnamed \notin {temp, dump}
    BY <2>1, <2>2 DEF Unnamed
  <2> QED BY <1>2, <2>3 DEF TempFile
<1> QED BY <1>1, <1>2

LEMMA CreateKeeps ==
  ASSUME Inv, NEW s \in Savers, Create(s)
  PROVE  Inv'
<1> DEFINE f == TempFile
           others == {o \in Savers : save[o].file = f}
           alone == others = {}
<1>1. /\ save[s].at = "idle" /\ temp' = f /\ dump' = dump /\ clean' = clean
      /\ save' = [o \in Savers |->
                   IF o = s
                   THEN [Idle EXCEPT !.at = "header", !.file = f, !.alone = alone,
                                     !.touched = IF alone THEN Busy ELSE {}]
                   ELSE IF o \in others THEN [save[o] EXCEPT !.alone = FALSE, !.touched = {}]
                   ELSE save[o]]
      /\ content' = [content EXCEPT ![f] = IF alone THEN Truncated(f) ELSE <<Torn>>]
  BY DEF Create, At, history
<1>2. f \in File /\ f # dump /\ f # NoFile
  BY <1>1, TempFileIsFree
<1>3. /\ DOMAIN save'[s] = Fields /\ save'[s].at = "header" /\ save'[s].file = f
      /\ save'[s].alone = alone
  BY <1>1 DEF Idle, Fields
<1>4. ASSUME NEW o \in Savers \ {s}
      PROVE  /\ DOMAIN save'[o] = Fields /\ save'[o].at = save[o].at
             /\ save'[o].file = save[o].file /\ save'[o].todo = save[o].todo
             /\ save'[o].alone = (save[o].alone /\ save[o].file # f)
  <2>1. CASE o \in others
    <3>1. save'[o] = [save[o] EXCEPT !.alone = FALSE, !.touched = {}]
      BY <1>1, <2>1
    <3> QED BY <2>1, <3>1 DEF Inv, RecordsOK, Fields
  <2>2. CASE o \notin others
    <3>1. save'[o] = save[o] /\ save[o].file # f
      BY <1>1, <2>2
    <3> QED BY <3>1 DEF Inv, RecordsOK
  <2> QED BY <2>1, <2>2
<1>5. DOMAIN save' = Savers
  BY <1>1
<1> DEFINE start == IF alone THEN <<>> ELSE <<Torn>>
<1>6. /\ DOMAIN content' = File /\ content'[f] = start
      /\ \A g \in File : g # f => content'[g] = content[g]
  BY <1>1, <1>2 DEF Inv, FilesOK, Truncated
<1>7. start \in Seq({Torn})
  <2>1. <<>> \in Seq({Torn}) /\ <<Torn>> \in Seq({Torn})
    OBVIOUS
  <2> HIDE DEF alone
  <2> QED BY <2>1
<1> HIDE DEF f, alone, start
<1>8. RecordsOK'
  <2>1. /\ save'[s].at \in Labels /\ save'[s].alone \in BOOLEAN
        /\ save'[s].file \in File \cup {NoFile} /\ save'[s].at \notin {"idle", "reset"}
    BY <1>2, <1>3 DEF Labels, alone
  <2>2. ASSUME NEW o \in Savers \ {s}
        PROVE /\ save'[o].at \in Labels /\ save'[o].alone \in BOOLEAN
              /\ save'[o].file \in File \cup {NoFile}
              /\ save'[o].at \in {"idle", "reset"} => save'[o].file = NoFile /\ ~save'[o].alone
    BY <1>4 DEF Inv, RecordsOK
  <2> QED BY <1>3, <1>4, <1>5, <2>1, <2>2 DEF RecordsOK
<1>9. FilesOK'
  BY <1>1, <1>2, <1>6, <1>7 DEF Inv, FilesOK
<1>10. \A o \in Savers : save'[s].alone => save[o].file # f
  BY <1>3 DEF alone
<1>11. Apart'
  <2>1. temp' # dump'
    BY <1>1, <1>2
  <2>2. ASSUME NEW o \in Savers, save'[o].alone
        PROVE  save'[o].file \in File /\ \A x \in Savers \ {o} : save'[x].file # save'[o].file
    <3>1. CASE o = s
      BY <1>2, <1>3, <1>4, <1>10, <2>2, <3>1
    <3>2. CASE o # s
      <4>1. save[o].alone /\ save'[o].file = save[o].file /\ save[o].file # f
        BY <1>4, <2>2, <3>2
      <4>2. save[o].file \in File /\ \A x \in Savers \ {o} : save[x].file # save[o].file
        BY <4>1 DEF Inv, Apart
      <4>3. \A x \in Savers \ {o} : save'[x].file # save'[o].file
        BY <1>3, <1>4, <4>1, <4>2
      <4> QED BY <4>1, <4>2, <4>3
    <3> QED BY <3>1, <3>2
  <2>3. clean' /\ dump' # NoFile => \A o \in Savers : save'[o].file # dump'
    BY <1>1, <1>2, <1>3, <1>4 DEF Inv, Apart
  <2> QED BY <2>1, <2>2, <2>3 DEF Apart
<1>12. AloneProgress'
  <2>1. ASSUME NEW o \in Savers, save'[o].alone
        PROVE  Progress(save'[o], content'[save'[o].file])
    <3>1. CASE o = s
      BY <1>3, <1>6, <2>1, <3>1 DEF Progress, start
    <3>2. CASE o # s
      <4>1. save[o].alone /\ save[o].file # f /\ save[o].file \in File
        BY <1>4, <2>1, <3>2 DEF Inv, Apart
      <4>2. Progress(save[o], content[save[o].file])
        BY <4>1 DEF Inv, AloneProgress
      <4>3. content'[save'[o].file] = content[save[o].file]
        BY <1>4, <1>6, <3>2, <4>1
      <4> QED BY <1>4, <3>2, <4>2, <4>3 DEF Progress
    <3> QED BY <3>1, <3>2
  <2> QED BY <2>1 DEF AloneProgress
<1>13. SavedFileIsWhole'
  BY <1>1, <1>2, <1>6 DEF Inv, FilesOK, SavedFileIsWhole
<1> QED BY <1>8, <1>9, <1>11, <1>12, <1>13 DEF Inv

-----------------------------------------------------------------------------
(* A saver that ends, or several: files that nobody refers to are gone, the  *)
(* other savers go on.                                                     *)
LEMMA EndsKeep ==
  ASSUME Inv, NEW ended, ended \subseteq Savers,
         DOMAIN save' = Savers,
         \A s \in ended : save'[s].at \in {"idle", "reset"} /\ save'[s].file = NoFile
                          /\ save'[s].alone = FALSE /\ DOMAIN save'[s] = Fields,
         \A s \in Savers \ ended : save'[s] = save[s],
         temp' \in {temp, NoFile}, dump' \in File \cup {NoFile}, clean' \in BOOLEAN,
         temp' # NoFile => temp' # dump',
         NEW kept, Reaped(kept),
         dump' \in kept, \A s \in Savers \ ended : save[s].file \in kept,
         clean' => \/ clean /\ dump' = dump
                   \/ /\ \A s \in Savers \ ended : save[s].file # dump'
                      /\ Whole(content[dump'])
  PROVE  Inv'
<1>1. /\ DOMAIN content' = File
      /\ \A f \in File : content'[f] = IF f \in kept THEN content[f] ELSE <<>>
  BY DEF Reaped
<1>2. RecordsOK'
  BY DEF Inv, RecordsOK, Labels
<1>3. FilesOK'
  <2>1. ASSUME NEW f \in File PROVE \E S : content'[f] \in Seq(S)
    <3>1. CASE f \in kept
      BY <1>1, <3>1 DEF Inv, FilesOK
    <3>2. CASE f \notin kept
      <4>1. content'[f] = <<>>
        BY <1>1, <3>2
      <4>2. content'[f] \in Seq({Torn})
        BY <4>1
      <4> QED BY <4>2
    <3> QED BY <3>1, <3>2
  <2> QED BY <1>1, <2>1 DEF Inv, FilesOK
<1>4. Apart'
  BY NoFileAssumption DEF Inv, Apart, File
<1>5. AloneProgress'
  <2>1. ASSUME NEW o \in Savers, save'[o].alone
        PROVE  Progress(save'[o], content'[save'[o].file])
    <3>1. o \notin ended /\ save'[o] = save[o] /\ save[o].file \in kept
      BY <2>1
    <3>2. save[o].file \in File
      BY <2>1, <3>1 DEF Inv, Apart
    <3> QED BY <1>1, <2>1, <3>1, <3>2 DEF Inv, AloneProgress
  <2> QED BY <2>1 DEF AloneProgress
<1>6. SavedFileIsWhole'
  <2>1. SUFFICES ASSUME dump' # NoFile, clean' PROVE Whole(content'[dump'])
    BY DEF SavedFileIsWhole
  <2>2. content'[dump'] = content[dump']
    BY <1>1, <2>1
  <2> QED BY <2>1, <2>2 DEF Inv, SavedFileIsWhole
<1> QED BY <1>2, <1>3, <1>4, <1>5, <1>6 DEF Inv

LEMMA IdleRecord ==
  DOMAIN Idle = Fields /\ Idle.at = "idle" /\ Idle.file = NoFile /\ Idle.alone = FALSE
BY DEF Idle, Fields

LEMMA StopKeeps ==
  ASSUME Inv, Stop
  PROVE  Inv'
<1>1. /\ save' = [s \in Savers |-> Idle] /\ Reaped({temp, dump})
      /\ temp' = temp /\ dump' = dump /\ clean' = clean
  BY DEF Stop, history
<1>2. DOMAIN save' = Savers /\ \A s \in Savers : save'[s] = Idle
  BY <1>1
<1>3. dump' \in File \cup {NoFile} /\ clean' \in BOOLEAN /\ (temp' # NoFile => temp' # dump')
  BY <1>1 DEF Inv, FilesOK, Apart
<1>4. \A s \in Savers : /\ save'[s].at \in {"idle", "reset"} /\ save'[s].file = NoFile
                         /\ save'[s].alone = FALSE /\ DOMAIN save'[s] = Fields
  BY <1>2, IdleRecord
<1>5. dump' \in {temp, dump} /\ clean' => clean /\ dump' = dump
  BY <1>1
<1>6. Savers \ Savers = {}
  OBVIOUS
<1> QED BY <1>1, <1>2, <1>3, <1>4, <1>5, <1>6, EndsKeep

LEMMA FinishKeeps ==
  ASSUME Inv, NEW s \in Savers, Reset(s) \/ Fail(s)
  PROVE  Inv'
<1> DEFINE kept == {temp, dump} \cup {save[o].file : o \in Savers \ {s}}
<1>1. /\ save' = [save EXCEPT ![s] = Idle] /\ Reaped(kept)
      /\ temp' = temp /\ dump' = dump /\ clean' = clean
  BY DEF Reset, Fail, Finish, history
<1>2. DOMAIN save' = Savers /\ save'[s] = Idle /\ \A o \in Savers \ {s} : save'[o] = save[o]
  BY <1>1, OtherSavers DEF Inv
<1>3. dump' \in File \cup {NoFile} /\ clean' \in BOOLEAN /\ (temp' # NoFile => temp' # dump')
  BY <1>1 DEF Inv, FilesOK, Apart
<1>4. dump' \in kept /\ \A o \in Savers \ {s} : save[o].file \in kept
  BY <1>1
<1>5. \A o \in {s} : /\ save'[o].at \in {"idle", "reset"} /\ save'[o].file = NoFile
                      /\ save'[o].alone = FALSE /\ DOMAIN save'[o] = Fields
  BY <1>2, IdleRecord
<1>6. {s} \subseteq Savers
  OBVIOUS
<1> HIDE DEF kept
<1> QED BY <1>1, <1>2, <1>3, <1>4, <1>5, <1>6, EndsKeep

LEMMA RenameKeeps ==
  ASSUME Inv, NEW s \in Savers, Rename(s)
  PROVE  Inv'
<1> DEFINE kept == {temp} \cup {save[o].file : o \in Savers \ {s}}
           r == [Idle EXCEPT !.at = "reset"]
<1>1. /\ save[s].at = "rename" /\ temp # NoFile
      /\ save' = [save EXCEPT ![s] = r] /\ Reaped(kept)
      /\ temp' = NoFile /\ dump' = temp
      /\ clean' = (save[s].alone /\ save[s].file = temp)
  BY DEF Rename, At
<1>2. DOMAIN save' = Savers /\ save'[s] = r /\ \A o \in Savers \ {s} : save'[o] = save[o]
  BY <1>1, OtherSavers DEF Inv
<1>3. DOMAIN r = Fields /\ r.at = "reset" /\ r.file = NoFile /\ r.alone = FALSE
  BY IdleRecord DEF Fields, Idle
<1>4. dump' \in File \cup {NoFile} /\ clean' \in BOOLEAN
  BY <1>1 DEF Inv, FilesOK, RecordsOK
<1>5. dump' \in kept /\ \A o \in Savers \ {s} : save[o].file \in kept
  BY <1>1
<1>6. ASSUME clean'
      PROVE  (\A o \in Savers \ {s} : save[o].file # dump') /\ Whole(content[dump'])
  BY <1>1, <1>6 DEF Inv, Apart, AloneProgress, Progress
<1>7. {s} \subseteq Savers
  OBVIOUS
<1> HIDE DEF kept, r
<1>8. \A o \in {s} : /\ save'[o].at \in {"idle", "reset"} /\ save'[o].file = NoFile
                      /\ save'[o].alone = FALSE /\ DOMAIN save'[o] = Fields
  BY <1>2, <1>3
<1>9. temp' \in {temp, NoFile} /\ (temp' # NoFile => temp' # dump')
  BY <1>1
<1>10. Reaped(kept)
  BY <1>1
<1> QED BY <1>2, <1>4, <1>5, <1>6, <1>7, <1>8, <1>9, <1>10, EndsKeep

-----------------------------------------------------------------------------
LEMMA RestKeeps ==
  ASSUME Inv,
         \/ Start \/ StartFails \/ Interrupt \/ Tick \/ Evict \/ UNCHANGED vars
         \/ \E p \in Client : Record(p) \/ ChangeData(p) \/ ChangeTtl(p)
  PROVE  Inv'
<1>1. CASE \/ Start \/ StartFails \/ Interrupt \/ Tick \/ UNCHANGED vars
           \/ \E p \in Client : ChangeData(p) \/ ChangeTtl(p)
  <2>1. UNCHANGED <<save, files, clean>>
    BY <1>1 DEF Start, StartFails, Interrupt, Tick, ChangeData, ChangeTtl, vars, history, files
  <2> QED BY <2>1, Stutters
<1>2. ASSUME NEW keys, save' = [s \in Savers |-> Noted(s, keys)], UNCHANGED files, clean' = clean
      PROVE  Inv'
  <2>1. \A s \in Savers : save'[s] = Noted(s, keys)
    BY <1>2
  <2>2. \A s \in Savers : Same(s)
    BY <2>1, NotedIsSame DEF Inv
  <2> QED BY <1>2, <2>2, NobodySaves
<1>3. CASE Evict
  BY <1>2, <1>3 DEF Evict
<1>4. CASE \E p \in Client : Record(p)
  BY <1>2, <1>4 DEF Record
<1> QED BY <1>1, <1>3, <1>4

LEMMA InitKeeps == Init => Inv
<1> SUFFICES ASSUME Init PROVE Inv
  OBVIOUS
<1>1. \A s \in Savers : save[s] = Idle
  BY DEF Init
<1>2. RecordsOK
  BY <1>1, IdleRecord DEF Init, RecordsOK, Labels
<1>3. FilesOK
  <2>1. \A f \in File : content[f] \in Seq({})
    BY DEF Init
  <2> QED BY <2>1 DEF Init, FilesOK
<1>4. Apart /\ AloneProgress /\ SavedFileIsWhole
  BY <1>1, IdleRecord DEF Init, Apart, AloneProgress, SavedFileIsWhole
<1> QED BY <1>2, <1>3, <1>4 DEF Inv

LEMMA InvKeeps == Inv /\ [Next]_vars => Inv'
BY RestKeeps, StopKeeps, CreateKeeps, WritesKeep, CopiesKeep, RenameKeeps, FinishKeeps
   DEF Next, Exit, Kill, SaveStep

LEMMA InvIsInvariant == Spec => []Inv
BY InitKeeps, InvKeeps, PTL DEF Spec

(* "Atomic rename", for any numbers of clients, keys and commands: the file  *)
(* under its final name is a whole save, unless the save that renamed it   *)
(* shared the temporary file with another one.                             *)
THEOREM SavedFilesAreWhole == Spec => []SavedFileIsWhole
<1>1. Inv => SavedFileIsWhole
  BY DEF Inv
<1> QED BY <1>1, InvIsInvariant, PTL

-----------------------------------------------------------------------------
(* Types.  A saver still has to write keys of its copy only, and a client   *)
(* at work is at a key.                                                    *)
SaveRecord == [at: Labels, file: File \cup {NoFile}, todo: SUBSET Key,
               data: [Key -> Nat], ttl: [Key -> Nat \cup {NoTtl}],
               alone: BOOLEAN, touched: SUBSET Key]

ToWrite ==
  /\ \A s \in Savers : save[s].at = "write" => save[s].todo \subseteq Kept(save[s].data)
  /\ \A p \in Client : pc[p] # "idle" => cmd[p].key \in Key

Typed == Inv /\ TypeOK /\ ToWrite

LEMMA Update ==
  ASSUME NEW A, NEW B, NEW f \in [A -> B], NEW x, NEW v \in B
  PROVE  [f EXCEPT ![x] = v] \in [A -> B]
  OBVIOUS

LEMMA IdleIsTyped == Idle \in SaveRecord
  BY DEF Idle, SaveRecord, Labels, Empty, NoTtls, Absent, NoTtl

LEMMA NotedIsTyped ==
  ASSUME TypeOK, NEW s \in Savers, NEW keys \in SUBSET Key
  PROVE  /\ Noted(s, keys) \in SaveRecord
         /\ Noted(s, keys).at = save[s].at /\ Noted(s, keys).todo = save[s].todo
         /\ Noted(s, keys).data = save[s].data
  BY DEF TypeOK, SaveRecord, Noted

(* Bounded sets of numbers have a largest one. *)
LEMMA LargestNumber ==
  ASSUME NEW n \in Nat, NEW S \in SUBSET (1 .. n), S # {}
  PROVE  \E m \in S : \A j \in S : j <= m
<1> DEFINE T == {m \in 0 .. n : \A R \in SUBSET (1 .. m) : R # {} => \E x \in R : \A y \in R : y <= x}
<1>1. 0 \in T
  <2>1. 1 .. 0 = {} /\ 0 \in 0 .. n
    OBVIOUS
  <2> QED BY <2>1
<1>2. ASSUME NEW m \in 1 .. n, m - 1 \in T PROVE m \in T
  <2>1. ASSUME NEW R \in SUBSET (1 .. m), R # {} PROVE \E x \in R : \A y \in R : y <= x
    <3>1. CASE m \in R
      BY <3>1
    <3>2. CASE m \notin R
      <4>1. R \in SUBSET (1 .. m - 1)
        BY <3>2
      <4> QED BY <1>2, <2>1, <4>1
    <3> QED BY <3>1, <3>2
  <2> QED BY <2>1
<1>3. n \in T
  <2> HIDE DEF T
  <2> QED BY <1>1, <1>2, InductionUpTo DEF Inductive
<1> QED BY <1>3

LEMMA RestoredIsTyped ==
  ASSUME NEW cells \in Seq(Cell)
  PROVE  /\ Restored(cells).data \in [Key -> Nat]
         /\ Restored(cells).ttl \in [Key -> Nat \cup {NoTtl}]
<1>1. ASSUME NEW is \in SUBSET Entries(cells), is # {} PROVE Latest(is) \in is
  <2>1. DOMAIN cells = 1 .. Len(cells) /\ Len(cells) \in Nat
    OBVIOUS
  <2>2. \E i \in is : \A j \in is : j <= i
    BY <1>1, <2>1, LargestNumber DEF Entries
  <2> QED BY <2>2 DEF Latest
<1>2. ASSUME NEW i \in Entries(cells)
      PROVE  cells[i].val \in Nat /\ cells[i].ttl \in Nat \cup {NoTtl}
  <2>1. cells[i] \in Cell /\ cells[i].t = "entry"
    BY <1>2 DEF Entries
  <2> QED BY <2>1 DEF Cell, Magic, Eof, Torn
<1> DEFINE Dated(k) == {i \in Live(cells, k) : cells[i].ttl # NoTtl}
<1>3. ASSUME NEW k \in Key
      PROVE  /\ Live(cells, k) # {} => Latest(Live(cells, k)) \in Entries(cells)
             /\ Dated(k) # {} => Latest(Dated(k)) \in Entries(cells)
  <2>1. Live(cells, k) \in SUBSET Entries(cells) /\ Dated(k) \in SUBSET Entries(cells)
    BY DEF Live
  <2> HIDE DEF Dated
  <2> QED BY <1>1, <2>1
<1> QED BY <1>2, <1>3 DEF Restored, Absent

LEMMA LoadsAreTyped ==
  ASSUME TypeOK, NEW s \in Loads(dump)
  PROVE  s.data \in [Key -> Nat] /\ s.ttl \in [Key -> Nat \cup {NoTtl}]
<1>1. CASE IsTorn(dump)
  <2>1. s \in [data: [Key -> 0 .. writes], ttl: [Key -> {NoTtl, now + 1}]]
    BY <1>1 DEF Loads
  <2> QED BY <2>1, BoundAssumption DEF TypeOK
<1>2. CASE ~IsTorn(dump)
  <2>1. s = Restored(Cells(dump))
    BY <1>2 DEF Loads, Loaded
  <2>2. Cells(dump) \in Seq(Cell)
    BY DEF TypeOK, Cells
  <2> QED BY <2>1, <2>2, RestoredIsTyped
<1> QED BY <1>1, <1>2

LEMMA SweepIsTyped ==
  ASSUME TypeOK, Sweep
  PROVE  /\ data' \in [Key -> Nat] /\ ttl' \in [Key -> Nat \cup {NoTtl}]
         /\ missed' \subseteq Key /\ Overdue \in SUBSET Key
  BY DEF TypeOK, Sweep, Overdue, Missed, Absent, NoTtl

(* The steps that leave every saver where it is. *)
LEMMA RestIsTyped ==
  ASSUME Typed,
         \/ Start \/ StartFails \/ Interrupt \/ Tick \/ Evict \/ UNCHANGED vars
         \/ \E p \in Client : Record(p) \/ ChangeData(p) \/ ChangeTtl(p)
  PROVE  TypeOK' /\ ToWrite'
<1> USE DEF Typed
<1>1. CASE Start
  <2>1. data' \in [Key -> Nat] /\ ttl' \in [Key -> Nat \cup {NoTtl}]
    BY <1>1, LoadsAreTyped DEF Start
  <2> QED BY <1>1, <2>1 DEF Start, TypeOK, ToWrite, clients, stats, files
<1>2. CASE StartFails \/ UNCHANGED vars
  BY <1>2 DEF StartFails, TypeOK, ToWrite, vars, store, clients, stats, files, history
<1>3. CASE Interrupt
  BY <1>3 DEF Interrupt, TypeOK, ToWrite, store, clients, stats, files, history
<1>4. CASE Tick
  BY <1>4, BoundAssumption DEF Tick, TypeOK, ToWrite, store, clients, stats, files, history
<1>5. ASSUME NEW keys \in SUBSET Key, save' = [s \in Savers |-> Noted(s, keys)]
      PROVE  /\ save' \in [Savers -> SaveRecord]
             /\ \A s \in Savers : save'[s].at = "write" => save'[s].todo \subseteq Kept(save'[s].data)
  BY <1>5, NotedIsTyped DEF ToWrite
<1>6. CASE Evict
  <2>1. save' \in [Savers -> SaveRecord] /\ ToWrite'
    BY <1>5, <1>6, SweepIsTyped DEF Evict, ToWrite, clients
  <2> QED BY <1>6, <2>1, SweepIsTyped DEF Evict, TypeOK, SaveRecord, clients, stats, files
<1>7. ASSUME NEW p \in Client, Record(p) PROVE TypeOK' /\ ToWrite'
  <2>1. PICK k \in Key, op \in {"set", "setex", "del"} :
          /\ cmd' = [cmd EXCEPT ![p] = [key |-> k, op |-> op]]
          /\ save' = [s \in Savers |-> Noted(s, {k})]
          /\ missed' = Missed({k})
    BY <1>7 DEF Record
  <2>2. save' \in [Savers -> SaveRecord] /\ ToWrite'
    <3>1. \A q \in Client : pc'[q] # "idle" => cmd'[q].key \in Key
      BY <1>7, <2>1 DEF Record, TypeOK, ToWrite
    <3>2. {k} \in SUBSET Key
      OBVIOUS
    <3>3. save' \in [Savers -> SaveRecord]
      BY <1>5, <2>1, <3>2
    <3>4. \A s \in Savers : save'[s].at = "write" => save'[s].todo \subseteq Kept(save'[s].data)
      BY <1>5, <2>1, <3>2
    <3> QED BY <3>1, <3>3, <3>4 DEF ToWrite
  <2>3. cmd' \in [Client -> [key: Key, op: {"set", "setex", "del"}] \cup {NoCmd}]
    BY <2>1 DEF TypeOK
  <2>4. missed' \subseteq Key
    BY <2>1 DEF TypeOK, Missed
  <2>5. pc' \in [Client -> {"idle", "data", "ttl"}] /\ dirty' \in Nat /\ writes' \in 0 .. MaxWrites
    BY <1>7, BoundAssumption DEF Record, TypeOK
  <2> QED BY <1>7, <2>2, <2>3, <2>4, <2>5 DEF Record, TypeOK, SaveRecord, store, files
<1>8. ASSUME NEW p \in Client, ChangeData(p) PROVE TypeOK' /\ ToWrite'
  <2>0. writes \in Nat
    BY BoundAssumption DEF TypeOK
  <2>1. PICK v \in Nat : data' = [data EXCEPT ![cmd[p].key] = v]
    BY <1>8, <2>0 DEF ChangeData, Absent
  <2>2. data' \in [Key -> Nat]
    <3>1. data \in [Key -> Nat]
      BY DEF TypeOK
    <3> QED BY <2>1, <3>1, Update
  <2>3. pc' \in [Client -> {"idle", "data", "ttl"}]
    <3>1. pc \in [Client -> {"idle", "data", "ttl"}] /\ pc' = [pc EXCEPT ![p] = "ttl"]
      BY <1>8 DEF ChangeData, TypeOK
    <3> QED BY <3>1
  <2>4. ToWrite'
    BY <1>8 DEF ChangeData, TypeOK, ToWrite
  <2> QED BY <1>8, <2>2, <2>3, <2>4 DEF ChangeData, TypeOK, stats, files, history
<1>9. ASSUME NEW p \in Client, ChangeTtl(p) PROVE TypeOK' /\ ToWrite'
  <2>0. now + 1 \in Nat
    BY BoundAssumption DEF TypeOK
  <2>1. PICK d \in Nat \cup {NoTtl} : ttl' = [ttl EXCEPT ![cmd[p].key] = d]
    BY <1>9, <2>0 DEF ChangeTtl
  <2>2. ttl' \in [Key -> Nat \cup {NoTtl}]
    <3>1. ttl \in [Key -> Nat \cup {NoTtl}]
      BY DEF TypeOK
    <3> QED BY <2>1, <3>1, Update
  <2>3. /\ pc' \in [Client -> {"idle", "data", "ttl"}]
        /\ cmd' \in [Client -> [key: Key, op: {"set", "setex", "del"}] \cup {NoCmd}]
    BY <1>9 DEF ChangeTtl, TypeOK
  <2>4. ToWrite'
    BY <1>9 DEF ChangeTtl, TypeOK, ToWrite
  <2> QED BY <1>9, <2>2, <2>3, <2>4 DEF ChangeTtl, TypeOK, stats, files, history
<1> QED BY <1>1, <1>2, <1>3, <1>4, <1>6, <1>7, <1>8, <1>9

(* The steps of one saver. *)
LEMMA CellsAreTyped ==
  ASSUME TypeOK, NEW s \in Savers, NEW c \in Cell, WriteCell(s, c)
  PROVE  content' \in [File -> Seq(Cell)]
<1>1. CASE save[s].alone
  <2>1. content' = [content EXCEPT ![save[s].file] = Append(@, c)]
    BY <1>1 DEF WriteCell
  <2>2. \A q \in Seq(Cell) : Append(q, c) \in Seq(Cell)
    OBVIOUS
  <2>3. \A f \in File : content[f] \in Seq(Cell)
    BY DEF TypeOK
  <2>4. DOMAIN content = File
    BY DEF TypeOK
  <2>5. \A f \in File : content'[f] = content[f] \/ content'[f] = Append(content[f], c)
    BY <2>1, <2>4
  <2>6. \A f \in File : content'[f] \in Seq(Cell)
    BY <2>2, <2>3, <2>5
  <2>7. content' = [f \in File |-> content'[f]]
    BY <2>1, <2>4
  <2> QED BY <2>6, <2>7
<1>2. CASE ~save[s].alone
  BY <1>2 DEF WriteCell, TypeOK
<1> QED BY <1>1, <1>2

LEMMA CreateIsTyped ==
  ASSUME Typed, NEW s \in Savers, Create(s) PROVE TypeOK' /\ ToWrite'
<1> DEFINE f == TempFile
           others == {o \in Savers : save[o].file = f}
           alone == others = {}
           first == [Idle EXCEPT !.at = "header", !.file = f, !.alone = alone,
                                 !.touched = IF alone THEN Busy ELSE {}]
<1>1. /\ save[s].at = "idle" /\ temp' = f /\ dump' = dump
      /\ save' = [o \in Savers |->
                   IF o = s THEN first
                   ELSE IF o \in others THEN [save[o] EXCEPT !.alone = FALSE, !.touched = {}]
                   ELSE save[o]]
      /\ content' = [content EXCEPT ![f] = IF alone THEN Truncated(f) ELSE <<Torn>>]
  BY DEF Create, At
<1>2. f \in File
  BY <1>1, TempFileIsFree DEF Typed
<1>3. Busy \subseteq Key
  <2>1. ASSUME NEW p \in Client, pc[p] # "idle" PROVE cmd[p].key \in Key
    BY <2>1 DEF Typed, ToWrite
  <2> QED BY <2>1 DEF Busy
<1>4. first \in SaveRecord /\ first.at = "header"
  <2>1. alone \in BOOLEAN /\ (IF alone THEN Busy ELSE {}) \in SUBSET Key
    BY <1>3
  <2> HIDE DEF alone, f
  <2> QED BY <1>2, <2>1, IdleIsTyped DEF SaveRecord, Labels
<1>5. ASSUME NEW o \in Savers
      PROVE  LET r == [save[o] EXCEPT !.alone = FALSE, !.touched = {}]
             IN  /\ r \in SaveRecord /\ save[o] \in SaveRecord
                 /\ r.at = save[o].at /\ r.todo = save[o].todo /\ r.data = save[o].data
  BY DEF Typed, TypeOK, SaveRecord
<1>6. content' \in [File -> Seq(Cell)]
  <2>1. (IF alone THEN Truncated(f) ELSE <<Torn>>) \in Seq(Cell)
    <3>1. Torn \in Cell
      BY DEF Cell
    <3>2. <<Torn>> \in Seq(Cell) /\ <<>> \in Seq(Cell)
      BY <3>1
    <3> QED BY <3>2 DEF Truncated
  <2> HIDE DEF alone
  <2> QED BY <1>1, <2>1 DEF Typed, TypeOK
<1>9. UNCHANGED <<stage, now, store, clients, stats, history>>
  BY DEF Create
<1> HIDE DEF f, others, alone, first
<1>7. save' \in [Savers -> SaveRecord]
  BY <1>1, <1>4, <1>5
<1>8. ToWrite'
  BY <1>1, <1>4, <1>5, <1>9 DEF Typed, ToWrite, clients
<1>10. /\ {temp', dump'} \subseteq File \cup {NoFile}
  BY <1>1, <1>2 DEF Typed, TypeOK
<1> QED BY <1>6, <1>7, <1>8, <1>9, <1>10 DEF Typed, TypeOK, SaveRecord, store, clients, stats, history

(* One saver gets another record, while the store and the clients stay. *)
LEMMA SaverMoves ==
  ASSUME Typed, NEW s \in Savers, NEW r \in SaveRecord, save' = [save EXCEPT ![s] = r],
         r.at = "write" => r.todo \subseteq Kept(r.data), UNCHANGED clients
  PROVE  save' \in [Savers -> SaveRecord] /\ ToWrite'
<1>1. save \in [Savers -> SaveRecord]
  BY DEF Typed, TypeOK, SaveRecord
<1>2. \A o \in Savers : save'[o] = r \/ save'[o] = save[o]
  BY <1>1
<1>3. save' \in [Savers -> SaveRecord]
  BY <1>1, Update
<1> QED BY <1>2, <1>3 DEF Typed, ToWrite, clients

LEMMA CopiesAreTyped ==
  ASSUME Typed, NEW s \in Savers, CopyData(s) \/ CopyTtl(s) PROVE TypeOK' /\ ToWrite'
<1> DEFINE r == save[s]
<1>0. r \in SaveRecord /\ save \in [Savers -> SaveRecord]
  BY DEF Typed, TypeOK, SaveRecord
<1>1. CASE CopyData(s)
  <2>1. PICK k \in r.todo :
          save' = [save EXCEPT ![s].data[k] = data[k],
                               ![s].todo = IF save[s].todo = {k} THEN Key ELSE @ \ {k},
                               ![s].at = IF save[s].todo = {k} THEN "copy_ttl" ELSE @]
    BY <1>1 DEF CopyData
  <2> DEFINE todo == IF r.todo = {k} THEN Key ELSE r.todo \ {k}
             at == IF r.todo = {k} THEN "copy_ttl" ELSE r.at
             copy == [r.data EXCEPT ![k] = data[k]]
             new == [[[r EXCEPT !.data = copy] EXCEPT !.todo = todo] EXCEPT !.at = at]
  <2>2. save' = [save EXCEPT ![s] = new]
    BY <1>0, <2>1 DEF SaveRecord
  <2>3. todo \in SUBSET Key /\ at \in Labels /\ at # "write"
    BY <1>0, <1>1 DEF SaveRecord, Labels, CopyData, At
  <2>4. copy \in [Key -> Nat]
    <3>1. r.data \in [Key -> Nat] /\ data[k] \in Nat
      BY <1>0 DEF Typed, TypeOK, SaveRecord
    <3> QED BY <3>1
  <2> HIDE DEF todo, at, copy
  <2>5. new \in SaveRecord /\ new.at = at
    BY <1>0, <2>3, <2>4 DEF SaveRecord
  <2> HIDE DEF new
  <2>6. save' \in [Savers -> SaveRecord] /\ ToWrite'
    BY <1>1, <2>2, <2>3, <2>5, SaverMoves DEF CopyData
  <2> QED BY <1>1, <2>6 DEF Typed, TypeOK, SaveRecord, CopyData, store, clients, stats, files, history
<1>2. CASE CopyTtl(s)
  <2>1. PICK k \in r.todo :
          save' = [save EXCEPT ![s].ttl[k] = IF save[s].data[k] = Absent THEN NoTtl ELSE ttl[k],
                               ![s].todo = IF save[s].todo = {k} THEN Kept(save[s].data) ELSE @ \ {k},
                               ![s].at = IF save[s].todo = {k} THEN "write" ELSE @]
    BY <1>2 DEF CopyTtl
  <2> DEFINE todo == IF r.todo = {k} THEN Kept(r.data) ELSE r.todo \ {k}
             at == IF r.todo = {k} THEN "write" ELSE r.at
             copy == [r.ttl EXCEPT ![k] = IF r.data[k] = Absent THEN NoTtl ELSE ttl[k]]
             new == [[[r EXCEPT !.ttl = copy] EXCEPT !.todo = todo] EXCEPT !.at = at]
  <2>2. save' = [save EXCEPT ![s] = new]
    BY <1>0, <2>1 DEF SaveRecord
  <2>3. todo \in SUBSET Key /\ at \in Labels /\ (at = "write" => todo = Kept(r.data))
    BY <1>0, <1>2 DEF SaveRecord, Labels, CopyTtl, At, Kept
  <2>4. copy \in [Key -> Nat \cup {NoTtl}]
    <3>1. /\ r.ttl \in [Key -> Nat \cup {NoTtl}]
          /\ (IF r.data[k] = Absent THEN NoTtl ELSE ttl[k]) \in Nat \cup {NoTtl}
      BY <1>0 DEF Typed, TypeOK, SaveRecord
    <3> QED BY <3>1, Update
  <2> HIDE DEF todo, at, copy
  <2>5. new \in SaveRecord /\ new.at = at /\ new.todo = todo /\ new.data = r.data
    BY <1>0, <2>3, <2>4 DEF SaveRecord
  <2> HIDE DEF new, r
  <2>6. save' \in [Savers -> SaveRecord] /\ ToWrite'
    <3>1. UNCHANGED clients
      BY <1>2 DEF CopyTtl
    <3>2. new.at = "write" => new.todo \subseteq Kept(new.data)
      BY <2>3, <2>5
    <3> QED BY <2>2, <2>5, <3>1, <3>2, SaverMoves
  <2> QED BY <1>2, <2>6 DEF Typed, TypeOK, SaveRecord, CopyTtl, store, clients, stats, files, history
<1> QED BY <1>1, <1>2

LEMMA WritesAreTyped ==
  ASSUME Typed, NEW s \in Savers, WriteHeader(s) \/ WriteEntry(s) \/ WriteEof(s)
  PROVE  TypeOK' /\ ToWrite'
<1> DEFINE r == save[s]
<1>0. r \in SaveRecord /\ save \in [Savers -> SaveRecord]
  BY DEF Typed, TypeOK, SaveRecord
<1>1. CASE WriteHeader(s)
  <2> DEFINE new == [r EXCEPT !.at = "copy_data", !.todo = Key]
  <2>1. /\ WriteCell(s, Magic) /\ Sweep
        /\ save' = [o \in Savers |-> IF o = s THEN new ELSE Noted(o, Overdue)]
        /\ UNCHANGED <<stage, now, clients, stats, temp, dump, writes, clean>>
    BY <1>1 DEF WriteHeader
  <2>2. new \in SaveRecord /\ new.at = "copy_data"
    BY <1>0 DEF SaveRecord, Labels
  <2>3. Magic \in Cell
    BY DEF Cell
  <2>4. content' \in [File -> Seq(Cell)]
    BY <2>1, <2>3, CellsAreTyped DEF Typed
  <2>5. Overdue \in SUBSET Key
    BY DEF Overdue
  <2> HIDE DEF new
  <2>6. \A o \in Savers : /\ save'[o] \in SaveRecord
                          /\ save'[o].at = "write" => save'[o].todo \subseteq Kept(save'[o].data)
    BY <2>1, <2>2, <2>5, NotedIsTyped DEF Typed, ToWrite
  <2>7. save' \in [Savers -> SaveRecord]
    <3>1. save' = [o \in Savers |-> save'[o]]
      BY <2>1
    <3> QED BY <2>6, <3>1
  <2>8. ToWrite'
    <3>1. UNCHANGED clients
      BY <2>1
    <3> QED BY <2>6, <3>1 DEF Typed, ToWrite, clients
  <2>9. /\ data' \in [Key -> Nat] /\ ttl' \in [Key -> Nat \cup {NoTtl}]
        /\ missed' \subseteq Key
    BY <2>1, SweepIsTyped DEF Typed
  <2> QED BY <2>1, <2>4, <2>7, <2>8, <2>9 DEF Typed, TypeOK, SaveRecord, clients, stats
<1>2. CASE WriteEntry(s)
  <2>1. PICK k \in r.todo :
          /\ save' = [save EXCEPT ![s].todo = @ \ {k}]
          /\ \/ UNCHANGED content
             \/ WriteCell(s, Entry(k, r.data[k], r.ttl[k]))
    BY <1>2 DEF WriteEntry
  <2> DEFINE new == [r EXCEPT !.todo = r.todo \ {k}]
  <2>2. save' = [save EXCEPT ![s] = new]
    BY <2>1
  <2>3. r.at = "write" /\ r.todo \subseteq Kept(r.data)
    BY <1>2 DEF WriteEntry, At, Typed, ToWrite
  <2>4. new \in SaveRecord /\ new.todo \subseteq Kept(new.data)
    BY <1>0, <2>3 DEF SaveRecord
  <2>5. Entry(k, r.data[k], r.ttl[k]) \in Cell
    <3>1. /\ r.data[k] \in Nat /\ r.data[k] # 0
          /\ r.ttl[k] \in Nat \cup {NoTtl} /\ k \in Key
      BY <1>0, <2>3 DEF SaveRecord, Kept, Absent
    <3> QED BY <3>1 DEF Entry, Cell
  <2>6. content' \in [File -> Seq(Cell)]
    BY <2>1, <2>5, CellsAreTyped DEF Typed, TypeOK
  <2> HIDE DEF new, r
  <2>7. save' \in [Savers -> SaveRecord] /\ ToWrite'
    BY <1>2, <2>2, <2>4, SaverMoves DEF WriteEntry
  <2> QED BY <1>2, <2>6, <2>7 DEF Typed, TypeOK, SaveRecord, WriteEntry, store, clients, stats, history
<1>3. CASE WriteEof(s)
  <2> DEFINE new == [[[r EXCEPT !.at = "rename"] EXCEPT !.data = Empty] EXCEPT !.ttl = NoTtls]
  <2>1. /\ WriteCell(s, Eof) /\ save' = [save EXCEPT ![s] = new]
        /\ UNCHANGED <<stage, now, store, clients, stats, temp, dump, history>>
    BY <1>0, <1>3 DEF WriteEof, SaveRecord
  <2>2. new \in SaveRecord /\ new.at = "rename"
    <3>1. Empty \in [Key -> Nat] /\ NoTtls \in [Key -> Nat \cup {NoTtl}]
      BY DEF Empty, NoTtls, Absent, NoTtl
    <3> QED BY <1>0, <3>1 DEF SaveRecord, Labels
  <2>3. Eof \in Cell
    BY DEF Cell
  <2>4. content' \in [File -> Seq(Cell)]
    BY <2>1, <2>3, CellsAreTyped DEF Typed
  <2> HIDE DEF new, r
  <2>5. save' \in [Savers -> SaveRecord] /\ ToWrite'
    BY <2>1, <2>2, SaverMoves
  <2> QED BY <2>1, <2>4, <2>5 DEF Typed, TypeOK, SaveRecord, store, clients, stats, history
<1> QED BY <1>1, <1>2, <1>3

LEMMA ReapedIsTyped ==
  ASSUME TypeOK, NEW kept, Reaped(kept) PROVE content' \in [File -> Seq(Cell)]
<1>1. \A f \in File : content[f] \in Seq(Cell)
  BY DEF TypeOK
<1>2. <<>> \in Seq(Cell)
  OBVIOUS
<1> QED BY <1>1, <1>2 DEF Reaped

LEMMA EndsAreTyped ==
  ASSUME Typed, Stop \/ \E s \in Savers : Rename(s) \/ Reset(s) \/ Fail(s)
  PROVE  TypeOK' /\ ToWrite'
<1>1. CASE Stop
  <2>1. content' \in [File -> Seq(Cell)]
    BY <1>1, ReapedIsTyped DEF Stop, Typed
  <2>2. /\ data' \in [Key -> Nat] /\ ttl' \in [Key -> Nat \cup {NoTtl}]
        /\ pc' \in [Client -> {"idle", "data", "ttl"}]
        /\ cmd' \in [Client -> [key: Key, op: {"set", "setex", "del"}] \cup {NoCmd}]
    BY <1>1 DEF Stop, Empty, NoTtls, Absent, NoTtl
  <2>3. save' \in [Savers -> SaveRecord] /\ ToWrite'
    BY <1>1, IdleIsTyped, IdleRecord DEF Stop, ToWrite
  <2> QED BY <1>1, <2>1, <2>2, <2>3 DEF Stop, Typed, TypeOK, SaveRecord, history
<1>2. ASSUME NEW s \in Savers, Rename(s) PROVE TypeOK' /\ ToWrite'
  <2> DEFINE new == [Idle EXCEPT !.at = "reset"]
  <2>1. /\ save' = [save EXCEPT ![s] = new] /\ dump' = temp /\ temp' = NoFile
        /\ clean' = (save[s].alone /\ save[s].file = temp)
        /\ missed' = save[s].touched
        /\ UNCHANGED <<stage, now, store, clients, stats, writes>>
    BY <1>2 DEF Rename
  <2>2. new \in SaveRecord /\ new.at = "reset"
    BY IdleIsTyped DEF SaveRecord, Labels
  <2>3. content' \in [File -> Seq(Cell)]
    BY <1>2, ReapedIsTyped DEF Rename, Typed
  <2>4. clean' \in BOOLEAN /\ missed' \subseteq Key
    BY <2>1 DEF Typed, TypeOK
  <2> HIDE DEF new
  <2>5. save' \in [Savers -> SaveRecord] /\ ToWrite'
    BY <2>1, <2>2, SaverMoves
  <2> QED BY <2>1, <2>3, <2>4, <2>5 DEF Typed, TypeOK, SaveRecord, store, clients, stats
<1>3. ASSUME NEW s \in Savers, Reset(s) \/ Fail(s) PROVE TypeOK' /\ ToWrite'
  <2>1. PICK ok \in BOOLEAN : Finish(s, ok) /\ UNCHANGED <<now, store, clients, temp, dump, history>>
    BY <1>3 DEF Reset, Fail
  <2>2. content' \in [File -> Seq(Cell)]
    BY <2>1, ReapedIsTyped DEF Finish, Typed
  <2>3. save' \in [Savers -> SaveRecord] /\ ToWrite'
    BY <2>1, IdleIsTyped, IdleRecord, SaverMoves DEF Finish
  <2>4. /\ dirty' \in Nat /\ failed' \in BOOLEAN
        /\ stage' \in {"down", "run", "last_save", "linger"}
    BY <2>1 DEF Finish, CountAfter, Typed, TypeOK
  <2> QED BY <2>1, <2>2, <2>3, <2>4 DEF Typed, TypeOK, SaveRecord, store, clients, history
<1> QED BY <1>1, <1>2, <1>3

LEMMA InitIsTyped == Init => Typed
<1> SUFFICES ASSUME Init PROVE TypeOK /\ ToWrite
  BY InitKeeps DEF Typed
<1>1. save \in [Savers -> SaveRecord]
  BY IdleIsTyped DEF Init
<1>2. ToWrite
  BY IdleRecord DEF Init, ToWrite
<1>3. content \in [File -> Seq(Cell)]
  BY DEF Init
<1>4. /\ data \in [Key -> Nat] /\ ttl \in [Key -> Nat \cup {NoTtl}]
      /\ pc \in [Client -> {"idle", "data", "ttl"}]
      /\ cmd \in [Client -> [key: Key, op: {"set", "setex", "del"}] \cup {NoCmd}]
  BY DEF Init, Empty, NoTtls, Absent, NoTtl
<1>5. /\ stage \in {"down", "run", "last_save", "linger"}
      /\ now \in 0 .. MaxTime /\ writes \in 0 .. MaxWrites
      /\ dirty \in Nat /\ missed \subseteq Key
  BY BoundAssumption DEF Init
<1>6. failed \in BOOLEAN /\ clean \in BOOLEAN /\ {temp, dump} \subseteq File \cup {NoFile}
  BY DEF Init
<1> QED BY <1>1, <1>2, <1>3, <1>4, <1>5, <1>6 DEF TypeOK, SaveRecord

LEMMA StepIsTyped == Typed /\ [Next]_vars => Typed'
<1> SUFFICES ASSUME Typed, [Next]_vars PROVE TypeOK' /\ ToWrite'
  BY InvKeeps DEF Typed
<1> QED
  BY RestIsTyped, CreateIsTyped, CopiesAreTyped, WritesAreTyped, EndsAreTyped
     DEF Next, Exit, Kill, SaveStep

LEMMA TypedIsInvariant == Spec => []Typed
BY InitIsTyped, StepIsTyped, PTL DEF Spec

(* The types, for any numbers of clients, keys, changes and commands: what a *)
(* restart finds in a file are entries of keys with numbers that some SET   *)
(* wrote, and no entry of a key that is absent is ever saved.               *)
THEOREM SnapshotTypeCorrect == Spec => []TypeOK
<1>1. Typed => TypeOK
  BY DEF Typed
<1> QED BY <1>1, TypedIsInvariant, PTL

-----------------------------------------------------------------------------
(* What a file carries of a key whose value is v and whose deadline is d at  *)
(* the time t: the key as it is, or nothing that a load would show, when    *)
(* the key does not show either.                                           *)
Past(d, t) == d # NoTtl /\ d <= t

Of(cells, k) == {i \in DOMAIN cells : cells[i].t = "entry" /\ cells[i].key = k}

Carries(cells, k, v, d, t) ==
  \/ /\ Of(cells, k) # {}
     /\ \A i \in Of(cells, k) : cells[i].val = v /\ cells[i].ttl = d
  \/ /\ \A i \in Of(cells, k) : Past(cells[i].ttl, t)
     /\ v = Absent \/ Past(d, t)

CarriesNow(cells, k) == Carries(cells, k, data[k], ttl[k], now)

(* How far a saver that is alone has got with a key that nobody touched.    *)
CopyOf(s, k) ==
  /\ save[s].at = "copy_data" /\ k \notin save[s].todo => save[s].data[k] = data[k]
  /\ save[s].at \in {"copy_ttl", "write"} => save[s].data[k] = data[k]
  /\ (save[s].at = "copy_ttl" /\ k \notin save[s].todo) \/ save[s].at = "write" =>
       save[s].ttl[k] = IF data[k] = Absent THEN NoTtl ELSE ttl[k]
  /\ (save[s].at = "write" /\ k \notin save[s].todo) \/ save[s].at = "rename" =>
       CarriesNow(content[save[s].file], k)

Copied(s) ==
  save[s].alone => \A k \in Key \ save[s].touched : k \notin Busy /\ CopyOf(s, k)

(* No change is counted, or the counter is about to be reset. *)
Settled == dirty = 0 \/ \E s \in Savers : save[s].at = "reset"

DumpCarries ==
  clean /\ stage # "down" /\ Settled =>
    \A k \in Key \ missed : k \notin Busy /\ CarriesNow(Cells(dump), k)

Down ==
  stage = "down" => /\ dirty = 0
                    /\ \A s \in Savers : save[s].at = "idle"
                    /\ \A p \in Client : pc[p] = "idle"

Sound == Typed /\ Down /\ (\A s \in Savers : Copied(s)) /\ DumpCarries

(* A whole file has one entry for a key, or none; a load shows it while its  *)
(* deadline has not passed.                                                *)
LEMMA LoadOfWhole ==
  ASSUME TypeOK, NEW cells \in Seq(Cell), Whole(cells) \/ cells = <<>>, NEW k \in Key
  PROVE  \/ /\ \A i \in Of(cells, k) : Past(cells[i].ttl, now)
            /\ Restored(cells).data[k] = Absent /\ Restored(cells).ttl[k] = NoTtl
         \/ \E i \in DOMAIN cells :
              /\ Of(cells, k) = {i} /\ ~Past(cells[i].ttl, now)
              /\ Restored(cells).data[k] = cells[i].val
              /\ Restored(cells).ttl[k] = cells[i].ttl
<1>0. DOMAIN cells = 1 .. Len(cells) /\ Len(cells) \in Nat
  OBVIOUS
<1>1. Of(cells, k) \subseteq Entries(cells)
  <2>1. CASE cells = <<>>
    BY <1>0, <2>1 DEF Of
  <2>2. CASE Whole(cells)
    <3>1. ASSUME NEW i \in Of(cells, k), NEW j \in 1 .. i PROVE cells[j] # Eof
      <4>1. i \in 2 .. Len(cells) - 1
        BY <1>0, <2>2 DEF Of, Whole, Magic, Eof
      <4>2. CASE j = 1
        BY <2>2, <4>2 DEF Whole, Magic, Eof
      <4>3. CASE j # 1
        <5>1. j \in 2 .. Len(cells) - 1
          BY <1>0, <4>1, <4>3
        <5>2. cells[j].t = "entry"
          BY <2>2, <5>1 DEF Whole
        <5> QED BY <5>2 DEF Eof
      <4> QED BY <4>2, <4>3
    <3> QED BY <3>1 DEF Of, Entries
  <2> QED BY <2>1, <2>2
<1>2. ASSUME NEW i \in Of(cells, k), NEW j \in Of(cells, k) PROVE i = j
  <2>1. CASE cells = <<>>
    BY <1>0, <2>1 DEF Of
  <2>2. CASE Whole(cells)
    <3>1. {i, j} \subseteq 2 .. Len(cells) - 1
      BY <1>0, <2>2 DEF Of, Whole, Magic, Eof
    <3> QED BY <2>2, <3>1 DEF Of, Whole
  <2> QED BY <2>1, <2>2
<1>3. Live(cells, k) = {i \in Of(cells, k) : ~Past(cells[i].ttl, now)}
  BY <1>1 DEF Live, Of, Entries, Past, Expired
<1> DEFINE Dated == {i \in Live(cells, k) : cells[i].ttl # NoTtl}
<1>4. /\ Restored(cells).data[k] = IF Live(cells, k) = {} THEN Absent
                                   ELSE cells[Latest(Live(cells, k))].val
      /\ Restored(cells).ttl[k] = IF Dated = {} THEN NoTtl ELSE cells[Latest(Dated)].ttl
  BY DEF Restored
<1>5. CASE Live(cells, k) = {}
  BY <1>3, <1>4, <1>5
<1>6. CASE Live(cells, k) # {}
  <2>1. PICK i \in Of(cells, k) : Of(cells, k) = {i} /\ Live(cells, k) = {i} /\ ~Past(cells[i].ttl, now)
    BY <1>2, <1>3, <1>6
  <2>2. i \in DOMAIN cells /\ i \in Int
    BY <1>0 DEF Of
  <2>3. Latest({i}) = i
    BY <2>2 DEF Latest
  <2>4. Dated = IF cells[i].ttl # NoTtl THEN {i} ELSE {}
    BY <2>1
  <2> HIDE DEF Dated
  <2> QED BY <1>4, <2>1, <2>2, <2>3, <2>4
<1> QED BY <1>5, <1>6

LEMMA CarriesLater ==
  ASSUME NEW cells \in Seq(Cell), NEW k, NEW v, NEW d \in Nat \cup {NoTtl},
         NEW t \in Nat, NEW u \in Nat, t <= u, Carries(cells, k, v, d, t)
  PROVE  Carries(cells, k, v, d, u)
<1>1. ASSUME NEW e \in Nat \cup {NoTtl}, Past(e, t) PROVE Past(e, u)
  BY <1>1 DEF Past, NoTtl
<1>2. ASSUME NEW i \in Of(cells, k) PROVE cells[i].ttl \in Nat \cup {NoTtl}
  <2>1. cells[i] \in Cell /\ cells[i].t = "entry"
    BY DEF Of
  <2> QED BY <2>1 DEF Cell, Magic, Eof, Torn
<1> QED BY <1>1, <1>2 DEF Carries

(* What a step does to a key that nobody works on: nothing, or at least       *)
(* nothing that makes a file wrong about it.                               *)
Calm(k) == k \notin Busy' /\ data'[k] = data[k] /\ ttl'[k] = ttl[k]

Stays(k) ==
  /\ k \notin Busy'
  /\ \A cells \in Seq(Cell) :
       CarriesNow(cells, k) => Carries(cells, k, data'[k], ttl'[k], now')

LEMMA CalmStays ==
  ASSUME TypeOK, NEW k \in Key, Calm(k), now' \in Nat, now <= now' PROVE Stays(k)
<1>1. now \in Nat /\ ttl[k] \in Nat \cup {NoTtl}
  BY BoundAssumption DEF TypeOK
<1> QED BY <1>1, CarriesLater DEF Calm, Stays, CarriesNow

(* A sweep makes a key that has expired absent: a file with its entries still *)
(* loads as if it had none.                                                *)
LEMMA SweepStays ==
  ASSUME TypeOK, Sweep, UNCHANGED <<now, clients>>, NEW k \in Key, k \notin Busy PROVE Stays(k)
<1>1. Busy' = Busy
  BY DEF Busy, clients
<1>2. CASE k \in Overdue
  <2>1. data'[k] = Absent /\ Past(ttl[k], now)
    BY <1>2 DEF Sweep, Overdue, Past, Expired
  <2> QED BY <1>1, <2>1 DEF Stays, CarriesNow, Carries
<1>3. CASE k \notin Overdue
  <2>1. data'[k] = data[k] /\ ttl'[k] = ttl[k]
    BY <1>3 DEF Sweep
  <2> QED BY <1>1, <2>1 DEF Stays, CarriesNow
<1> QED BY <1>2, <1>3

LEMMA CopyStays ==
  ASSUME TypeOK, TypeOK', NEW s \in Savers, Copied(s), NEW keys,
         save'[s].alone =>
           /\ save[s].alone /\ save[s].touched \cup keys \subseteq save'[s].touched
           /\ save'[s].at = save[s].at /\ save'[s].todo = save[s].todo
           /\ save'[s].data = save[s].data /\ save'[s].ttl = save[s].ttl
           /\ save'[s].file = save[s].file
           /\ save[s].file \in File
           /\ content'[save[s].file] = content[save[s].file],
         now <= now', \A k \in Key \ keys : k \notin Busy => Calm(k)
  PROVE  Copied(s)'
<1> SUFFICES ASSUME save'[s].alone, NEW k \in Key, k \notin save'[s].touched
             PROVE  k \notin Busy' /\ CopyOf(s, k)'
  BY DEF Copied
<1>1. k \notin Busy /\ CopyOf(s, k) /\ k \notin keys
  BY DEF Copied
<1>2. Calm(k)
  BY <1>1
<1>3. Stays(k)
  BY <1>2, CalmStays, BoundAssumption DEF TypeOK
<1>4. CarriesNow(content[save[s].file], k) => CarriesNow(content[save[s].file], k)'
  BY <1>3 DEF Stays, CarriesNow, TypeOK
<1> QED BY <1>1, <1>2, <1>4 DEF Calm, CopyOf

LEMMA DumpStays ==
  ASSUME TypeOK, DumpCarries, dump' = dump, clean' => clean,
         clean /\ dump # NoFile => content'[dump] = content[dump],
         stage' # "down" => stage # "down",
         Settled' => Settled /\ \A k \in Key : k \notin missed' => k \notin missed /\ (k \notin Busy => Stays(k))
  PROVE  DumpCarries'
<1> SUFFICES ASSUME clean', stage' # "down", Settled', NEW k \in Key, k \notin missed'
             PROVE  k \notin Busy' /\ CarriesNow(Cells(dump), k)'
  BY DEF DumpCarries
<1>1. CarriesNow(Cells(dump), k) /\ Stays(k)
  BY DEF DumpCarries
<1>2. Cells(dump)' = Cells(dump) /\ Cells(dump) \in Seq(Cell)
  BY DEF Cells, TypeOK
<1> QED BY <1>1, <1>2 DEF Stays, CarriesNow

-----------------------------------------------------------------------------
(* The steps of the clients, the clock and the evictor. *)
LEMMA NotedCopy ==
  ASSUME TypeOK, RecordsOK, NEW s \in Savers, NEW keys, save'[s] = Noted(s, keys)
  PROVE  /\ save'[s].alone = save[s].alone /\ save'[s].at = save[s].at
         /\ save'[s].todo = save[s].todo /\ save'[s].data = save[s].data
         /\ save'[s].ttl = save[s].ttl /\ save'[s].file = save[s].file
         /\ save[s].alone => save[s].touched \cup keys \subseteq save'[s].touched
<1>1. CASE save[s].alone /\ save[s].at # "reset"
  <2>1. save'[s] = [save[s] EXCEPT !.touched = @ \cup keys]
    BY <1>1 DEF Noted
  <2> QED BY <2>1 DEF RecordsOK, Fields
<1>2. CASE ~(save[s].alone /\ save[s].at # "reset")
  BY <1>2 DEF Noted, RecordsOK
<1> QED BY <1>1, <1>2

LEMMA FileOfAlone ==
  ASSUME Inv, NEW s \in Savers, save[s].alone
  PROVE  save[s].file \in File /\ save[s].at \notin {"idle", "reset"}
BY DEF Inv, Apart, RecordsOK

(* A step that notes some keys leaves the others alone. *)
LEMMA NotingIsSound ==
  ASSUME Sound, TypeOK', NEW keys, UNCHANGED <<files, clean>>,
         stage' # "down" => stage # "down",
         \A s \in Savers : save'[s] = Noted(s, keys),
         now <= now', \A k \in Key \ keys : k \notin Busy => Calm(k),
         Settled' => Settled /\ \A k \in Key : k \notin missed' => k \notin missed /\ (k \notin Busy => Stays(k))
  PROVE  (\A s \in Savers : Copied(s)') /\ DumpCarries'
<1>1. TypeOK /\ RecordsOK /\ Inv
  BY DEF Sound, Typed, Inv
<1>2. content' = content /\ dump' = dump /\ clean' = clean
  BY DEF files
<1>3. DumpCarries'
  BY <1>1, <1>2, DumpStays DEF Sound
<1>4. ASSUME NEW s \in Savers PROVE Copied(s)'
  <2>1. save'[s] = Noted(s, keys) /\ Copied(s)
    BY DEF Sound
  <2>2. save[s].alone => save[s].file \in File
    BY <1>1, FileOfAlone
  <2> QED BY <1>1, <1>2, <2>1, <2>2, NotedCopy, CopyStays
<1> QED BY <1>3, <1>4

LEMMA RecordIsSound ==
  ASSUME Sound, TypeOK', NEW p \in Client, Record(p)
  PROVE  Down' /\ (\A s \in Savers : Copied(s)') /\ DumpCarries'
<1>1. PICK k \in Key, op \in {"set", "setex", "del"} :
        /\ cmd' = [cmd EXCEPT ![p] = [key |-> k, op |-> op]]
        /\ save' = [s \in Savers |-> Noted(s, {k})]
        /\ missed' = Missed({k})
  BY DEF Record
<1>2. TypeOK /\ RecordsOK
  BY DEF Sound, Typed, Inv
<1>3. /\ pc' = [pc EXCEPT ![p] = "data"] /\ dirty' = dirty + 1 /\ dirty' # 0
      /\ UNCHANGED <<stage, now, store, files, clean>> /\ stage # "down"
  BY <1>2 DEF Record, TypeOK
<1>4. \A s \in Savers : save'[s] = Noted(s, {k})
  BY <1>1
<1>5. Busy' \subseteq Busy \cup {k}
  <2>1. ASSUME NEW q \in Client, pc'[q] # "idle" PROVE cmd'[q].key \in Busy \cup {k}
    BY <1>1, <1>2, <1>3, <2>1 DEF Busy, TypeOK
  <2> QED BY <2>1 DEF Busy
<1>6. \A j \in Key \ {k} : j \notin Busy => Calm(j)
  BY <1>3, <1>5 DEF Calm, store
<1>7. now <= now' /\ now' \in Nat
  BY <1>2, <1>3, BoundAssumption DEF TypeOK
<1>8. ASSUME Settled'
      PROVE  /\ Settled
             /\ \A j \in Key : j \notin missed' => j \notin missed /\ (j \notin Busy => Stays(j))
  <2>1. \A s \in Savers : save'[s].at = save[s].at
    BY <1>2, <1>4, NotedCopy
  <2>2. \E s \in Savers : save[s].at = "reset"
    BY <1>3, <1>8, <2>1 DEF Settled
  <2>3. missed' = missed \cup {k}
    BY <1>1, <2>2 DEF Missed
  <2>4. Settled
    BY <2>2 DEF Settled
  <2>5. ASSUME NEW j \in Key, j \notin missed'
        PROVE  j \notin missed /\ (j \notin Busy => Stays(j))
    BY <1>2, <1>6, <1>7, <2>3, <2>5, CalmStays
  <2> QED BY <2>4, <2>5
<1> QED BY <1>3, <1>4, <1>6, <1>7, <1>8, NotingIsSound DEF Down

LEMMA RestIsSound ==
  ASSUME Sound, TypeOK',
         \/ StartFails \/ Interrupt \/ Tick \/ Evict \/ UNCHANGED vars
         \/ \E p \in Client : ChangeData(p) \/ ChangeTtl(p)
  PROVE  Down' /\ (\A s \in Savers : Copied(s)') /\ DumpCarries'
<1>0. /\ TypeOK /\ RecordsOK /\ now \in Nat
      /\ stage = "down" => \A p \in Client : pc[p] = "idle"
      /\ stage = "down" => dirty = 0 /\ \A s \in Savers : save[s].at = "idle"
  BY BoundAssumption DEF Sound, Typed, Inv, Down, TypeOK
<1>1. ASSUME NEW keys, \A j \in Key \ keys : j \notin Busy => Calm(j),
             now' \in Nat, now <= now', stage' # "down" => stage # "down",
             UNCHANGED <<files, stats, save, clean, missed>>,
             keys \cap Key \subseteq Busy
      PROVE  (\A s \in Savers : Copied(s)') /\ DumpCarries'
  <2>1. content' = content /\ dump' = dump /\ clean' = clean
    BY <1>1 DEF files
  <2>2. Settled' => Settled
    BY <1>1 DEF Settled, stats
  <2>3. \A j \in Key : j \notin Busy => Stays(j)
    BY <1>0, <1>1, CalmStays
  <2>4. DumpCarries'
    BY <1>0, <1>1, <2>1, <2>2, <2>3, DumpStays DEF Sound
  <2>5. ASSUME NEW s \in Savers PROVE Copied(s)'
    <3>1. /\ save'[s] = save[s] /\ Copied(s)
          /\ save[s].alone => save[s].file \in File
      BY <1>1, FileOfAlone DEF Sound, Typed
    <3>2. \A j \in Key \ {} : j \notin Busy => Calm(j)
      BY <1>1
    <3>3. save[s].touched \cup {} = save[s].touched
      OBVIOUS
    <3> QED BY <1>0, <1>1, <2>1, <3>1, <3>2, <3>3, CopyStays
  <2> QED BY <2>4, <2>5
<1>2. CASE StartFails \/ Interrupt \/ Tick \/ UNCHANGED vars
  <2>1. /\ UNCHANGED <<store, clients, stats, save, files, history>>
        /\ stage' # "down" => stage # "down"
        /\ now' = now \/ now' = now + 1
    BY <1>2 DEF StartFails, Interrupt, Tick, vars
  <2>2. UNCHANGED <<data, ttl, pc, cmd, dirty, clean, missed>>
    BY <2>1 DEF store, clients, stats, history
  <2>3. \A j \in Key \ {} : j \notin Busy => Calm(j)
    BY <2>2 DEF Calm, Busy
  <2>4. now' \in Nat /\ now <= now'
    BY <1>0, <2>1
  <2>5. (\A s \in Savers : Copied(s)') /\ DumpCarries'
    BY <1>1, <2>1, <2>2, <2>3, <2>4
  <2>6. Down'
    BY <1>0, <1>2, <2>1, <2>2 DEF Down, StartFails, Interrupt, Tick, vars
  <2> QED BY <2>5, <2>6
<1>3. ASSUME NEW p \in Client, ChangeData(p) \/ ChangeTtl(p)
      PROVE  Down' /\ (\A s \in Savers : Copied(s)') /\ DumpCarries'
  <2>1. /\ pc[p] # "idle" /\ pc' \in {[pc EXCEPT ![p] = "ttl"], [pc EXCEPT ![p] = "idle"]}
        /\ cmd' = cmd \/ (cmd' = [cmd EXCEPT ![p] = NoCmd] /\ pc'[p] = "idle")
        /\ UNCHANGED <<stage, now, stats, save, files, clean, missed>>
    BY <1>0, <1>3 DEF ChangeData, ChangeTtl, history, TypeOK
  <2>2. cmd[p].key \in Busy
    BY <2>1 DEF Busy
  <2>3. Busy' \subseteq Busy
    <3>1. ASSUME NEW q \in Client, pc'[q] # "idle" PROVE cmd'[q].key \in Busy
      <4>1. CASE q = p
        BY <2>1, <2>2, <3>1, <4>1
      <4>2. CASE q # p
        <5>1. pc'[q] = pc[q] /\ cmd'[q] = cmd[q]
          BY <1>0, <2>1, <4>2 DEF TypeOK
        <5> QED BY <3>1, <5>1 DEF Busy
      <4> QED BY <4>1, <4>2
    <3> QED BY <3>1 DEF Busy
  <2>4. \A j \in Key : j # cmd[p].key => data'[j] = data[j] /\ ttl'[j] = ttl[j]
    BY <1>0, <1>3 DEF ChangeData, ChangeTtl, TypeOK
  <2>5. \A j \in Key \ {cmd[p].key} : j \notin Busy => Calm(j)
    BY <2>3, <2>4 DEF Calm
  <2>6. (\A s \in Savers : Copied(s)') /\ DumpCarries'
    BY <1>0, <1>1, <2>1, <2>2, <2>5
  <2>7. stage # "down"
    BY <1>0, <2>1
  <2> QED BY <2>1, <2>6, <2>7 DEF Down
<1>4. CASE Evict
  <2>1. /\ stage # "down" /\ Sweep /\ save' = [s \in Savers |-> Noted(s, Overdue)]
        /\ UNCHANGED <<stage, now, clients, stats, files, clean>>
    BY <1>4 DEF Evict
  <2>2. \A s \in Savers : save'[s] = Noted(s, Overdue)
    BY <2>1
  <2>3. \A j \in Key \ Overdue : j \notin Busy => Calm(j)
    BY <2>1 DEF Calm, Sweep, Busy, clients
  <2>4. \A j \in Key : j \notin Busy => Stays(j)
    BY <1>0, <2>1, SweepStays
  <2>5. Settled' => Settled
    <3>1. \A s \in Savers : save'[s].at = save[s].at
      BY <1>0, <2>2, NotedCopy
    <3> QED BY <2>1, <3>1 DEF Settled, stats
  <2>6. missed \subseteq missed'
    BY <2>1 DEF Sweep, Missed
  <2>7. now <= now'
    BY <1>0, <2>1
  <2> QED BY <2>1, <2>2, <2>3, <2>4, <2>5, <2>6, <2>7, NotingIsSound DEF Down
<1> QED BY <1>2, <1>3, <1>4

LEMMA StartIsSound ==
  ASSUME Sound, TypeOK', Start
  PROVE  Down' /\ (\A s \in Savers : Copied(s)') /\ DumpCarries'
<1>1. /\ stage = "down" /\ stage' = "run" /\ missed' = {}
      /\ UNCHANGED <<now, clients, save, content, dump, clean>>
  BY DEF Start, files
<1>2. TypeOK /\ Inv /\ \A s \in Savers : save[s].at = "idle"
  BY <1>1 DEF Sound, Typed, Down
<1>3. \A s \in Savers : Copied(s)'
  BY <1>1, <1>2, FileOfAlone DEF Copied
<1>4. ASSUME clean, NEW k \in Key PROVE k \notin Busy' /\ CarriesNow(Cells(dump), k)'
  <2>1. Busy' = {}
    BY <1>1 DEF Busy, clients, Sound, Down
  <2> DEFINE cells == Cells(dump)
  <2>2. cells \in Seq(Cell) /\ (Whole(cells) \/ cells = <<>>)
    BY <1>2, <1>4 DEF Cells, TypeOK, Inv, SavedFileIsWhole
  <2>3. ~IsTorn(dump)
    <3>1. ~Whole(<<Torn>>)
      BY DEF Whole
    <3> QED BY <1>2, <1>4, <3>1 DEF IsTorn, Inv, SavedFileIsWhole
  <2>4. data'[k] = Restored(cells).data[k] /\ ttl'[k] = Restored(cells).ttl[k]
    BY <2>3 DEF Start, Loads, Loaded
  <2>5. Cells(dump)' = cells
    BY <1>1 DEF Cells
  <2> HIDE DEF cells
  <2>6. Carries(cells, k, data'[k], ttl'[k], now)
    <3>1. CASE /\ \A i \in Of(cells, k) : Past(cells[i].ttl, now)
               /\ Restored(cells).data[k] = Absent /\ Restored(cells).ttl[k] = NoTtl
      BY <2>4, <3>1 DEF Carries
    <3>2. CASE \E i \in DOMAIN cells :
                 /\ Of(cells, k) = {i} /\ ~Past(cells[i].ttl, now)
                 /\ Restored(cells).data[k] = cells[i].val
                 /\ Restored(cells).ttl[k] = cells[i].ttl
      BY <2>4, <3>2 DEF Carries
    <3> QED BY <1>2, <2>2, <3>1, <3>2, LoadOfWhole
  <2> QED BY <1>1, <2>1, <2>5, <2>6 DEF CarriesNow
<1>5. DumpCarries'
  BY <1>1, <1>4 DEF DumpCarries
<1> QED BY <1>1, <1>3, <1>5 DEF Down

-----------------------------------------------------------------------------
(* The steps of a saver, while the store and the clients stay. *)
LEMMA StillCalm ==
  ASSUME UNCHANGED <<now, store, clients>>, NEW k, k \notin Busy PROVE Calm(k)
BY DEF Calm, Busy, store, clients

LEMMA OtherCopies ==
  ASSUME Sound, TypeOK', NEW s \in Savers, UNCHANGED <<now, store, clients>>,
         save'[s].alone => /\ save'[s] = save[s]
                           /\ content'[save[s].file] = content[save[s].file]
  PROVE  Copied(s)'
<1>1. TypeOK /\ Inv /\ Copied(s) /\ now <= now'
  BY BoundAssumption DEF Sound, Typed, TypeOK
<1>2. \A k \in Key \ {} : k \notin Busy => Calm(k)
  BY StillCalm
<1>3. save'[s].alone => save[s].alone /\ save[s].file \in File
  BY <1>1, FileOfAlone
<1>4. save[s].touched \cup {} = save[s].touched
  OBVIOUS
<1> QED BY <1>1, <1>2, <1>3, <1>4, CopyStays

LEMMA DumpKept ==
  ASSUME Sound, TypeOK', UNCHANGED <<now, store, clients, dump, clean, missed>>,
         clean /\ dump # NoFile => content'[dump] = content[dump],
         stage' # "down" => stage # "down", Settled' => Settled
  PROVE  DumpCarries'
<1>1. TypeOK /\ DumpCarries /\ now' \in Nat /\ now <= now'
  BY BoundAssumption DEF Sound, Typed, TypeOK
<1>2. \A k \in Key : k \notin Busy => Stays(k)
  BY <1>1, CalmStays, StillCalm
<1> QED BY <1>1, <1>2, DumpStays

LEMMA CreateIsSound ==
  ASSUME Sound, TypeOK', NEW s \in Savers, Create(s)
  PROVE  Down' /\ (\A o \in Savers : Copied(o)') /\ DumpCarries'
<1> DEFINE f == TempFile
           others == {o \in Savers : save[o].file = f}
           alone == others = {}
           first == [Idle EXCEPT !.at = "header", !.file = f, !.alone = alone,
                                 !.touched = IF alone THEN Busy ELSE {}]
           shared(o) == [save[o] EXCEPT !.alone = FALSE, !.touched = {}]
           start == IF alone THEN Truncated(f) ELSE <<Torn>>
<1>1. /\ save[s].at = "idle" /\ Wanted(s) /\ temp' = f
      /\ save' = [o \in Savers |-> IF o = s THEN first ELSE IF o \in others THEN shared(o)
                                   ELSE save[o]]
      /\ content' = [content EXCEPT ![f] = start]
      /\ UNCHANGED <<stage, now, store, clients, stats, dump, history>>
  BY DEF Create, At
<1>2. TypeOK /\ Inv /\ f \in File /\ f # dump
  BY <1>1, TempFileIsFree DEF Sound, Typed
<1>3. \A g \in File : g # f => content'[g] = content[g]
  BY <1>1, <1>2 DEF TypeOK
<1>4. first.at = "header" /\ first.alone = alone /\ first.touched = IF alone THEN Busy ELSE {}
  BY DEF Idle
<1>5. \A o \in Savers : shared(o).at = save[o].at /\ shared(o).alone = FALSE
  BY <1>2 DEF Inv, RecordsOK, Fields
<1> HIDE DEF f, first, shared, start
<1>6. Copied(s)'
  <2>1. Busy' = Busy
    BY <1>1 DEF Busy, clients
  <2> QED BY <1>1, <1>4, <2>1 DEF Copied, CopyOf
<1>7. ASSUME NEW o \in Savers, o # s PROVE Copied(o)'
  <2>1. save'[o].alone => save'[o] = save[o] /\ save[o].file # f
    BY <1>1, <1>5, <1>7
  <2>2. save'[o].alone => save[o].file \in File
    BY <1>2, <2>1, FileOfAlone
  <2> QED BY <1>1, <1>3, <2>1, <2>2, OtherCopies
<1>8. \A o \in Savers : save'[o].at # save[o].at => o = s /\ save'[o].at = "header"
  BY <1>1, <1>4, <1>5
<1>9. DumpCarries'
  <2>1. Settled' => Settled
    BY <1>1, <1>8 DEF Settled, stats
  <2>2. clean /\ dump # NoFile => content'[dump] = content[dump]
    BY <1>2, <1>3 DEF TypeOK
  <2>3. UNCHANGED <<clean, missed>>
    BY <1>1 DEF history
  <2> QED BY <1>1, <2>1, <2>2, <2>3, DumpKept
<1>10. stage # "down"
  BY <1>1 DEF Wanted, Savers
<1> QED BY <1>1, <1>6, <1>7, <1>9, <1>10 DEF Down

LEMMA StopIsSound ==
  ASSUME Stop
  PROVE  Down' /\ (\A s \in Savers : Copied(s)') /\ DumpCarries'
<1>1. /\ stage' = "down" /\ dirty' = 0 /\ pc' = [p \in Client |-> "idle"]
      /\ save' = [s \in Savers |-> Idle]
  BY DEF Stop
<1>2. \A s \in Savers : save'[s].at = "idle" /\ save'[s].alone = FALSE
  BY <1>1, IdleRecord
<1> QED BY <1>1, <1>2 DEF Down, Copied, DumpCarries

LEMMA FinishIsSound ==
  ASSUME Sound, TypeOK', NEW s \in Savers, Reset(s) \/ Fail(s)
  PROVE  Down' /\ (\A o \in Savers : Copied(o)') /\ DumpCarries'
<1> DEFINE kept == {temp, dump} \cup {save[o].file : o \in Savers \ {s}}
<1>1. /\ save' = [save EXCEPT ![s] = Idle] /\ Reaped(kept)
      /\ stage' = stage \/ stage' = "linger"
      /\ UNCHANGED <<now, store, clients, dump, history>>
      /\ save[s].at # "idle"
      /\ save[s].at = "reset" \/ dirty' = dirty
  BY DEF Reset, Fail, Finish, At, CountAfter
<1>2. TypeOK /\ Inv
  BY DEF Sound, Typed
<1>3. save'[s] = Idle /\ \A o \in Savers \ {s} : save'[o] = save[o]
  BY <1>1, <1>2, OtherSavers DEF Inv
<1>4. \A f \in File : f \in kept => content'[f] = content[f]
  BY <1>1 DEF Reaped
<1>5. Copied(s)'
  BY <1>3, IdleRecord DEF Copied
<1>6. ASSUME NEW o \in Savers, o # s PROVE Copied(o)'
  <2>1. save'[o] = save[o] /\ save[o].file \in kept
    BY <1>3, <1>6
  <2>2. save'[o].alone => save[o].file \in File
    BY <1>2, <2>1, FileOfAlone
  <2> QED BY <1>1, <1>4, <2>1, <2>2, OtherCopies
<1>7. stage # "down"
  BY <1>1 DEF Sound, Down
<1>8. DumpCarries'
  <2>1. Settled' => Settled
    BY <1>1, <1>3, IdleRecord DEF Settled
  <2>2. clean /\ dump # NoFile => content'[dump] = content[dump]
    BY <1>2, <1>4 DEF TypeOK
  <2>3. UNCHANGED <<clean, missed>>
    BY <1>1 DEF history
  <2> QED BY <1>1, <1>7, <2>1, <2>2, <2>3, DumpKept
<1> QED BY <1>1, <1>5, <1>6, <1>7, <1>8 DEF Down

LEMMA RenameIsSound ==
  ASSUME Sound, TypeOK', NEW s \in Savers, Rename(s)
  PROVE  Down' /\ (\A o \in Savers : Copied(o)') /\ DumpCarries'
<1> DEFINE kept == {temp} \cup {save[o].file : o \in Savers \ {s}}
           r == [Idle EXCEPT !.at = "reset"]
<1>1. /\ save[s].at = "rename" /\ temp # NoFile
      /\ save' = [save EXCEPT ![s] = r] /\ Reaped(kept)
      /\ dump' = temp /\ missed' = save[s].touched
      /\ clean' = (save[s].alone /\ save[s].file = temp)
      /\ UNCHANGED <<stage, now, store, clients, stats>>
  BY DEF Rename, At
<1>2. TypeOK /\ Inv
  BY DEF Sound, Typed
<1>3. save'[s] = r /\ \A o \in Savers \ {s} : save'[o] = save[o]
  BY <1>1, <1>2, OtherSavers DEF Inv
<1>4. r.at = "reset" /\ r.alone = FALSE
  BY DEF Idle
<1>5. \A f \in File : f \in kept => content'[f] = content[f]
  BY <1>1 DEF Reaped
<1> HIDE DEF r
<1>6. Copied(s)'
  BY <1>3, <1>4 DEF Copied
<1>7. ASSUME NEW o \in Savers, o # s PROVE Copied(o)'
  <2>1. save'[o] = save[o] /\ save[o].file \in kept
    BY <1>3, <1>7
  <2>2. save'[o].alone => save[o].file \in File
    BY <1>2, <2>1, FileOfAlone
  <2> QED BY <1>1, <1>5, <2>1, <2>2, OtherCopies
<1>8. stage # "down"
  BY <1>1 DEF Sound, Down
<1>9. ASSUME clean', NEW k \in Key, k \notin missed'
      PROVE  k \notin Busy' /\ CarriesNow(Cells(dump), k)'
  <2>1. save[s].alone /\ save[s].file = temp /\ k \notin save[s].touched
    BY <1>1, <1>9
  <2>2. k \notin Busy /\ CarriesNow(content[temp], k)
    BY <1>1, <2>1 DEF Sound, Copied, CopyOf
  <2>3. Cells(dump)' = content[temp]
    <3>1. temp \in File
      BY <1>2, <2>1, FileOfAlone
    <3> QED BY <1>1, <1>5, <3>1 DEF Cells
  <2> QED BY <1>1, <2>2, <2>3, StillCalm DEF Calm, CarriesNow
<1> QED BY <1>1, <1>6, <1>7, <1>8, <1>9 DEF Down, DumpCarries

LEMMA CopiesAreSound ==
  ASSUME Sound, TypeOK', NEW s \in Savers, CopyData(s) \/ CopyTtl(s)
  PROVE  Down' /\ (\A o \in Savers : Copied(o)') /\ DumpCarries'
<1>1. /\ save[s].at \in {"copy_data", "copy_ttl"}
      /\ UNCHANGED <<stage, now, store, clients, stats, files, history>>
      /\ \A o \in Savers \ {s} : save'[o] = save[o]
      /\ save'[s].at \in {"copy_data", "copy_ttl", "write"}
      /\ save'[s].file = save[s].file /\ save'[s].alone = save[s].alone
      /\ save'[s].touched = save[s].touched
  <2>1. DOMAIN save[s] = Fields /\ DOMAIN save = Savers
    BY DEF Sound, Typed, Inv, RecordsOK
  <2>2. /\ save[s].at \in {"copy_data", "copy_ttl"}
        /\ UNCHANGED <<stage, now, store, clients, stats, files, history>>
    BY DEF CopyData, CopyTtl, At
  <2>3. CASE CopyData(s)
    <3>1. PICK j \in save[s].todo :
            save' = [save EXCEPT ![s].data[j] = data[j],
                                 ![s].todo = IF save[s].todo = {j} THEN Key ELSE save[s].todo \ {j},
                                 ![s].at = IF save[s].todo = {j} THEN "copy_ttl" ELSE save[s].at]
      BY <2>3 DEF CopyData
    <3> DEFINE todo == IF save[s].todo = {j} THEN Key ELSE save[s].todo \ {j}
               at == IF save[s].todo = {j} THEN "copy_ttl" ELSE save[s].at
               copy == data[j]
    <3>2. save' = [save EXCEPT ![s].data[j] = copy, ![s].todo = todo, ![s].at = at]
      BY <3>1
    <3>3. at \in {save[s].at, "copy_ttl"}
      OBVIOUS
    <3> HIDE DEF todo, at, copy
    <3>4. /\ \A o \in Savers \ {s} : save'[o] = save[o]
          /\ save'[s].at = at /\ save'[s].file = save[s].file
          /\ save'[s].alone = save[s].alone /\ save'[s].touched = save[s].touched
      BY <2>1, <3>2 DEF Fields
    <3> QED BY <2>2, <3>3, <3>4
  <2>4. CASE CopyTtl(s)
    <3>1. PICK j \in save[s].todo :
            save' = [save EXCEPT
              ![s].ttl[j] = IF save[s].data[j] = Absent THEN NoTtl ELSE ttl[j],
              ![s].todo = IF save[s].todo = {j} THEN Kept(save[s].data) ELSE save[s].todo \ {j},
              ![s].at = IF save[s].todo = {j} THEN "write" ELSE save[s].at]
      BY <2>4 DEF CopyTtl
    <3> DEFINE todo == IF save[s].todo = {j} THEN Kept(save[s].data) ELSE save[s].todo \ {j}
               at == IF save[s].todo = {j} THEN "write" ELSE save[s].at
               copy == IF save[s].data[j] = Absent THEN NoTtl ELSE ttl[j]
    <3>2. save' = [save EXCEPT ![s].ttl[j] = copy, ![s].todo = todo, ![s].at = at]
      BY <3>1
    <3>3. at \in {save[s].at, "write"}
      OBVIOUS
    <3> HIDE DEF todo, at, copy
    <3>4. /\ \A o \in Savers \ {s} : save'[o] = save[o]
          /\ save'[s].at = at /\ save'[s].file = save[s].file
          /\ save'[s].alone = save[s].alone /\ save'[s].touched = save[s].touched
      BY <2>1, <3>2 DEF Fields
    <3> QED BY <2>2, <3>3, <3>4
  <2> QED BY <2>3, <2>4
<1>2. TypeOK /\ Inv
  BY DEF Sound, Typed
<1>3. /\ UNCHANGED <<data, ttl, content, dump, dirty, clean, missed>>
      /\ Busy' = Busy
  BY <1>1 DEF store, clients, files, stats, history, Busy
<1>4. stage # "down"
  BY <1>1 DEF Sound, Down
<1>5. \A o \in Savers \ {s} : Copied(o)'
  BY <1>1, <1>3, OtherCopies
<1>6. DumpCarries'
  <2>1. Settled' => Settled
    BY <1>1, <1>3 DEF Settled
  <2> QED BY <1>1, <1>3, <2>1, DumpKept
<1>7. ASSUME save[s].alone, NEW k \in Key, k \notin save[s].touched
      PROVE  CopyOf(s, k)'
  <2>1. CopyOf(s, k)
    BY <1>7 DEF Sound, Copied
  <2>2. CASE CopyData(s)
    <3>1. PICK j \in save[s].todo :
            save' = [save EXCEPT ![s].data[j] = data[j],
                                 ![s].todo = IF save[s].todo = {j} THEN Key ELSE @ \ {j},
                                 ![s].at = IF save[s].todo = {j} THEN "copy_ttl" ELSE @]
      BY <2>2 DEF CopyData
    <3>2. save[s].at = "copy_data"
      BY <2>2 DEF CopyData, At
    <3>3. /\ save'[s].todo = IF save[s].todo = {j} THEN Key ELSE save[s].todo \ {j}
          /\ save'[s].at = IF save[s].todo = {j} THEN "copy_ttl" ELSE save[s].at
          /\ save'[s].data = [save[s].data EXCEPT ![j] = data[j]]
      BY <3>1, <1>2 DEF Inv, RecordsOK, Fields
    <3>4. k \notin save[s].todo \ {j} => save'[s].data[k] = data[k]
      BY <2>1, <3>2, <3>3, <1>2 DEF CopyOf, TypeOK
    <3>5. CASE save[s].todo = {j}
      BY <1>3, <3>3, <3>4, <3>5 DEF CopyOf
    <3>6. CASE save[s].todo # {j}
      BY <1>3, <3>2, <3>3, <3>4, <3>6 DEF CopyOf
    <3> QED BY <3>5, <3>6
  <2>3. CASE CopyTtl(s)
    <3>1. PICK j \in save[s].todo :
            save' = [save EXCEPT ![s].ttl[j] = IF save[s].data[j] = Absent THEN NoTtl ELSE ttl[j],
                                 ![s].todo = IF save[s].todo = {j} THEN Kept(save[s].data) ELSE @ \ {j},
                                 ![s].at = IF save[s].todo = {j} THEN "write" ELSE @]
      BY <2>3 DEF CopyTtl
    <3>2. save[s].at = "copy_ttl"
      BY <2>3 DEF CopyTtl, At
    <3>3. /\ save'[s].todo = IF save[s].todo = {j} THEN Kept(save[s].data) ELSE save[s].todo \ {j}
          /\ save'[s].at = IF save[s].todo = {j} THEN "write" ELSE save[s].at
          /\ save'[s].data = save[s].data
          /\ save'[s].ttl = [save[s].ttl EXCEPT
                               ![j] = IF save[s].data[j] = Absent THEN NoTtl ELSE ttl[j]]
      BY <3>1, <1>2 DEF Inv, RecordsOK, Fields
    <3>4. save[s].data[k] = data[k]
      BY <2>1, <3>2 DEF CopyOf
    <3>5. k \notin save[s].todo \ {j} =>
            save'[s].ttl[k] = IF data[k] = Absent THEN NoTtl ELSE ttl[k]
      BY <2>1, <3>2, <3>3, <3>4, <1>2 DEF CopyOf, TypeOK
    <3>6. CASE save[s].todo = {j}
      <4>1. ASSUME k \notin Kept(save[s].data) PROVE CarriesNow(content[save[s].file], k)
        <5>1. data[k] = Absent
          BY <3>4, <4>1 DEF Kept
        <5>2. content[save[s].file] = <<Magic>>
          BY <1>2, <1>7, <3>2 DEF Inv, AloneProgress, Progress
        <5>3. Of(<<Magic>>, k) = {}
          BY DEF Of, Magic
        <5> QED BY <5>1, <5>2, <5>3 DEF CarriesNow, Carries
      <4>2. (CarriesNow(content[save[s].file], k))' = CarriesNow(content[save[s].file], k)
        BY <1>1, <1>3 DEF CarriesNow
      <4> QED BY <1>3, <3>3, <3>4, <3>5, <3>6, <4>1, <4>2 DEF CopyOf
    <3>7. CASE save[s].todo # {j}
      BY <1>3, <3>2, <3>3, <3>4, <3>5, <3>7 DEF CopyOf
    <3> QED BY <3>6, <3>7
  <2> QED BY <2>2, <2>3
<1>8. Copied(s)'
  BY <1>1, <1>3, <1>7 DEF Sound, Copied
<1> QED BY <1>1, <1>4, <1>5, <1>6, <1>8 DEF Down

(* A cell that is no entry of a key adds nothing to what a file carries of it. *)
LEMMA OfAppend ==
  ASSUME NEW q \in Seq(Cell), NEW c, NEW k
  PROVE  Of(Append(q, c), k) =
           Of(q, k) \cup (IF c.t = "entry" /\ c.key = k THEN {Len(q) + 1} ELSE {})
<1>1. /\ Len(q) \in Nat /\ Len(Append(q, c)) = Len(q) + 1
      /\ \A i \in 1 .. Len(q) : Append(q, c)[i] = q[i]
      /\ Append(q, c)[Len(q) + 1] = c
  BY AppendCell
<1>2. DOMAIN q = 1 .. Len(q) /\ DOMAIN Append(q, c) = 1 .. Len(q) + 1
  OBVIOUS
<1>3. 1 .. Len(q) + 1 = (1 .. Len(q)) \cup {Len(q) + 1}
  BY <1>1
<1> QED BY <1>1, <1>2, <1>3 DEF Of

LEMMA CarriesAppend ==
  ASSUME NEW q \in Seq(Cell), NEW c, NEW k, NEW v, NEW d, NEW t,
         ~(c.t = "entry" /\ c.key = k), Carries(q, k, v, d, t)
  PROVE  Carries(Append(q, c), k, v, d, t)
<1>1. Of(Append(q, c), k) = Of(q, k)
  <2>1. Of(q, k) \cup {} = Of(q, k)
    OBVIOUS
  <2> QED BY <2>1, OfAppend
<1>2. \A i \in Of(q, k) : Append(q, c)[i] = q[i]
  BY AppendCell DEF Of
<1> QED BY <1>1, <1>2 DEF Carries

(* The file of a saver that is alone before and after a cell. *)
LEMMA WriterIsSound ==
  ASSUME Sound, TypeOK', NEW s \in Savers,
         save[s].at \notin {"idle", "reset"}, save'[s].at \notin {"idle", "reset"},
         \A o \in Savers \ {s} : save'[o] = save[o],
         \A f \in File : ~(save[s].alone /\ f = save[s].file) => content'[f] = content[f],
         UNCHANGED <<stage, now, store, clients, stats, dump, history>>,
         Copied(s)'
  PROVE  Down' /\ (\A o \in Savers : Copied(o)') /\ DumpCarries'
<1>1. TypeOK /\ Inv
  BY DEF Sound, Typed
<1>2. stage # "down"
  BY DEF Sound, Down
<1>3. ASSUME NEW o \in Savers, o # s PROVE Copied(o)'
  <2>1. ASSUME save'[o].alone PROVE content'[save[o].file] = content[save[o].file]
    <3>1. save[o].alone /\ save[o].file \in File /\ (save[s].alone => save[o].file # save[s].file)
      BY <1>1, <1>3, <2>1 DEF Inv, Apart
    <3> QED BY <3>1
  <2> QED BY <1>3, <2>1, OtherCopies
<1>4. DumpCarries'
  <2>1. Settled' => Settled
    BY DEF Settled, stats
  <2>2. clean /\ dump # NoFile => content'[dump] = content[dump]
    BY <1>1 DEF TypeOK, Inv, Apart
  <2>3. UNCHANGED <<clean, missed>>
    BY DEF history
  <2> QED BY <2>1, <2>2, <2>3, DumpKept
<1> QED BY <1>2, <1>3, <1>4 DEF Down

LEMMA EntryIsSound ==
  ASSUME Sound, TypeOK', NEW s \in Savers, WriteEntry(s)
  PROVE  Down' /\ (\A o \in Savers : Copied(o)') /\ DumpCarries'
<1>1. PICK j \in save[s].todo :
        /\ save' = [save EXCEPT ![s].todo = @ \ {j}]
        /\ \/ Expired(save[s].ttl[j]) /\ content' = content
           \/ WriteCell(s, Entry(j, save[s].data[j], save[s].ttl[j]))
  BY DEF WriteEntry
<1> DEFINE e == Entry(j, save[s].data[j], save[s].ttl[j])
           old == content[save[s].file]
<1>2. save[s].at = "write" /\ UNCHANGED <<stage, now, store, clients, stats, dump, history>>
  BY DEF WriteEntry, At
<1>3. TypeOK /\ Inv /\ save[s].todo \subseteq Kept(save[s].data)
  BY <1>2 DEF Sound, Typed, ToWrite
<1>4. /\ \A o \in Savers \ {s} : save'[o] = save[o]
      /\ save'[s].at = "write" /\ save'[s].todo = save[s].todo \ {j}
      /\ save'[s].file = save[s].file /\ save'[s].alone = save[s].alone
      /\ save'[s].touched = save[s].touched
      /\ save'[s].data = save[s].data /\ save'[s].ttl = save[s].ttl
  BY <1>1, <1>2, <1>3 DEF Inv, RecordsOK, Fields
<1>5. /\ \A f \in File : ~(save[s].alone /\ f = save[s].file) => content'[f] = content[f]
      /\ save[s].alone /\ WriteCell(s, e) => content'[save[s].file] = Append(old, e)
  BY <1>1, <1>2, <1>3, CellWritten
<1>6. UNCHANGED <<data, ttl>> /\ Busy' = Busy
  BY <1>2 DEF store, clients, Busy
<1>7. e.t = "entry" /\ e.key = j /\ e.val = save[s].data[j] /\ e.ttl = save[s].ttl[j]
  BY DEF Entry
<1> HIDE DEF e
<1>8. ASSUME save[s].alone, NEW k \in Key, k \notin save[s].touched
      PROVE  CopyOf(s, k)'
  <2>1. CopyOf(s, k)
    BY <1>8 DEF Sound, Copied
  <2>2. old \in Seq(Cell) /\ Partial(old, save[s].todo)
    BY <1>2, <1>3, <1>8, FileOfAlone DEF TypeOK, Inv, AloneProgress, Progress
  <2>3. ASSUME k \notin save[s].todo \ {j} PROVE CarriesNow(content'[save[s].file], k)
    <3>1. CASE k # j
      <4>1. CarriesNow(old, k)
        BY <1>2, <2>1, <2>3, <3>1 DEF CopyOf
      <4>2. CASE content' = content
        BY <4>1, <4>2
      <4>3. CASE WriteCell(s, e)
        <5>1. content'[save[s].file] = Append(old, e)
          BY <1>5, <1>8, <4>3
        <5>2. Carries(Append(old, e), k, data[k], ttl[k], now)
          BY <1>7, <2>2, <3>1, <4>1, CarriesAppend DEF CarriesNow
        <5> QED BY <5>1, <5>2 DEF CarriesNow
      <4> QED BY <1>1, <4>2, <4>3 DEF e
    <3>2. CASE k = j
      <4>1. save[s].data[k] = data[k] /\ save[s].ttl[k] = ttl[k]
        BY <1>2, <1>3, <2>1, <3>2 DEF CopyOf, Kept
      <4>2. Of(old, k) = {}
        <5>1. \A i \in DOMAIN old : i = 1 \/ i \in 2 .. Len(old)
          BY <2>2
        <5> QED BY <2>2, <3>2, <5>1 DEF Of, Partial, Magic
      <4>3. CASE Expired(save[s].ttl[j]) /\ content' = content
        BY <3>2, <4>1, <4>2, <4>3 DEF CarriesNow, Carries, Past, Expired
      <4>4. CASE WriteCell(s, e)
        <5>1. content'[save[s].file] = Append(old, e)
          BY <1>5, <1>8, <4>4
        <5>2. Of(Append(old, e), k) = {Len(old) + 1} /\ Append(old, e)[Len(old) + 1] = e
          BY <1>7, <2>2, <3>2, <4>2, OfAppend, AppendCell
        <5> QED BY <1>7, <3>2, <4>1, <5>1, <5>2 DEF CarriesNow, Carries
      <4> QED BY <1>1, <4>3, <4>4 DEF e
    <3> QED BY <3>1, <3>2
  <2>4. (CarriesNow(content[save[s].file], k))' = CarriesNow(content'[save[s].file], k)
    BY <1>2, <1>4, <1>6 DEF CarriesNow
  <2> QED BY <1>2, <1>4, <1>6, <2>1, <2>3, <2>4 DEF CopyOf
<1>9. Copied(s)'
  BY <1>4, <1>6, <1>8 DEF Sound, Copied
<1> QED BY <1>2, <1>4, <1>5, <1>9, WriterIsSound

LEMMA EofIsSound ==
  ASSUME Sound, TypeOK', NEW s \in Savers, WriteEof(s)
  PROVE  Down' /\ (\A o \in Savers : Copied(o)') /\ DumpCarries'
<1> DEFINE old == content[save[s].file]
<1>1. /\ save[s].at = "write" /\ save[s].todo = {} /\ WriteCell(s, Eof)
      /\ UNCHANGED <<stage, now, store, clients, stats, dump, history>>
  BY DEF WriteEof, At
<1>2. TypeOK /\ Inv
  BY DEF Sound, Typed
<1>3. /\ \A o \in Savers \ {s} : save'[o] = save[o]
      /\ save'[s].at = "rename" /\ save'[s].touched = save[s].touched
      /\ save'[s].file = save[s].file /\ save'[s].alone = save[s].alone
  BY <1>2 DEF WriteEof, Inv, RecordsOK, Fields
<1>4. /\ \A f \in File : ~(save[s].alone /\ f = save[s].file) => content'[f] = content[f]
      /\ save[s].alone => content'[save[s].file] = Append(old, Eof)
  BY <1>1, <1>2, CellWritten
<1>5. UNCHANGED <<data, ttl>> /\ Busy' = Busy
  BY <1>1 DEF store, clients, Busy
<1>6. ASSUME save[s].alone, NEW k \in Key, k \notin save[s].touched
      PROVE  CopyOf(s, k)'
  <2>1. CarriesNow(old, k)
    BY <1>1, <1>6 DEF Sound, Copied, CopyOf
  <2>2. old \in Seq(Cell)
    BY <1>2, <1>6, FileOfAlone DEF TypeOK
  <2>3. CarriesNow(content'[save[s].file], k)
    <3>1. Carries(old, k, data[k], ttl[k], now)
      BY <2>1 DEF CarriesNow
    <3>2. Eof.t # "entry"
      BY DEF Eof
    <3> HIDE DEF old
    <3>3. Carries(Append(old, Eof), k, data[k], ttl[k], now)
      BY <2>2, <3>1, <3>2, CarriesAppend
    <3> QED BY <1>4, <1>6, <3>3 DEF CarriesNow
  <2>4. (CarriesNow(content[save[s].file], k))' = CarriesNow(content'[save[s].file], k)
    BY <1>1, <1>3, <1>5 DEF CarriesNow
  <2> QED BY <1>3, <2>3, <2>4 DEF CopyOf
<1>7. Copied(s)'
  BY <1>3, <1>5, <1>6 DEF Sound, Copied
<1> QED BY <1>1, <1>3, <1>4, <1>7, WriterIsSound

LEMMA HeaderIsSound ==
  ASSUME Sound, TypeOK', NEW s \in Savers, WriteHeader(s)
  PROVE  Down' /\ (\A o \in Savers : Copied(o)') /\ DumpCarries'
<1> DEFINE r == [save[s] EXCEPT !.at = "copy_data", !.todo = Key]
<1>1. /\ save[s].at = "header" /\ WriteCell(s, Magic) /\ Sweep
      /\ save' = [o \in Savers |-> IF o = s THEN r ELSE Noted(o, Overdue)]
      /\ UNCHANGED <<stage, now, clients, stats, dump, clean>>
  BY DEF WriteHeader, At
<1>2. TypeOK /\ Inv /\ RecordsOK
  BY DEF Sound, Typed, Inv
<1>3. /\ r.at = "copy_data" /\ r.todo = Key /\ r.alone = save[s].alone
      /\ r.touched = save[s].touched
  BY <1>2 DEF RecordsOK, Fields
<1>4. save'[s] = r /\ \A o \in Savers \ {s} : save'[o] = Noted(o, Overdue)
  BY <1>1
<1> HIDE DEF r
<1>5. stage # "down"
  BY <1>1 DEF Sound, Down
<1>6. Busy' = Busy /\ dirty' = dirty
  BY <1>1 DEF clients, stats, Busy
<1>7. \A f \in File : ~(save[s].alone /\ f = save[s].file) => content'[f] = content[f]
  BY <1>1, <1>2, CellWritten
<1>8. Copied(s)'
  BY <1>3, <1>4, <1>6 DEF Sound, Copied, CopyOf
<1>9. ASSUME NEW o \in Savers, o # s PROVE Copied(o)'
  <2>1. save'[o] = Noted(o, Overdue) /\ Copied(o)
    BY <1>4, <1>9 DEF Sound
  <2>2. ASSUME save[o].alone
        PROVE  save[o].file \in File /\ content'[save[o].file] = content[save[o].file]
    <3>1. save[o].file \in File /\ (save[s].alone => save[o].file # save[s].file)
      BY <1>2, <1>9, <2>2 DEF Inv, Apart
    <3> QED BY <1>7, <3>1
  <2>3. \A k \in Key \ Overdue : k \notin Busy => Calm(k)
    BY <1>1, <1>6 DEF Calm, Sweep
  <2>4. now <= now'
    BY <1>1, <1>2, BoundAssumption DEF TypeOK
  <2> QED BY <1>2, <2>1, <2>2, <2>3, <2>4, NotedCopy, CopyStays
<1>10. DumpCarries'
  <2>1. \A o \in Savers : save'[o].at = "reset" => save[o].at = "reset"
    BY <1>2, <1>3, <1>4, NotedCopy
  <2>2. Settled' => Settled
    BY <1>6, <2>1 DEF Settled
  <2>3. \A k \in Key : k \notin Busy => Stays(k)
    BY <1>1, <1>2, SweepStays
  <2>4. missed \subseteq missed'
    BY <1>1 DEF Sweep, Missed
  <2>5. clean /\ dump # NoFile => content'[dump] = content[dump]
    BY <1>2, <1>7 DEF TypeOK, Inv, Apart
  <2> QED BY <1>1, <1>2, <2>2, <2>3, <2>4, <2>5, DumpStays DEF Sound
<1> QED BY <1>1, <1>5, <1>8, <1>9, <1>10 DEF Down

LEMMA SoundIsInvariant == Spec => []Sound
<1>1. Init => Sound
  <2> SUFFICES ASSUME Init PROVE Sound
    OBVIOUS
  <2>1. \A s \in Savers : save[s].at = "idle" /\ save[s].alone = FALSE
    BY IdleRecord DEF Init
  <2>2. Down /\ DumpCarries
    BY <2>1 DEF Init, Down, DumpCarries
  <2> QED BY <2>1, <2>2, InitIsTyped DEF Sound, Copied
<1>2. Sound /\ [Next]_vars => Sound'
  <2> SUFFICES ASSUME Sound, [Next]_vars
               PROVE  Down' /\ (\A s \in Savers : Copied(s)') /\ DumpCarries'
    BY StepIsTyped DEF Sound
  <2>1. TypeOK'
    BY StepIsTyped DEF Sound, Typed
  <2> QED
    BY <2>1, StartIsSound, RestIsSound, RecordIsSound, StopIsSound, CreateIsSound, HeaderIsSound,
       CopiesAreSound, EntryIsSound, EofIsSound, RenameIsSound, FinishIsSound
       DEF Next, Exit, Kill, SaveStep
<1> QED BY <1>1, <1>2, PTL DEF Spec

(* What a restart loses, for any numbers of clients, keys and commands: when  *)
(* no change is counted and no command runs, a load of the file shows every  *)
(* key as the store does, except the keys that a command or the evictor     *)
(* worked on while that save ran or before it reset the counter.            *)
THEOREM OnlyRacedWritesCanBeUnsaved == Spec => []OnlyRacedWritesAreUnsaved
<1>1. Sound => OnlyRacedWritesAreUnsaved
  <2> SUFFICES ASSUME Sound, stage # "down", dirty = 0, clean, NEW k \in Key \ missed
               PROVE  Visible(Loaded(dump), k) = Visible([data |-> data, ttl |-> ttl], k)
    BY DEF OnlyRacedWritesAreUnsaved
  <2> DEFINE cells == Cells(dump)
  <2>1. CarriesNow(cells, k)
    BY DEF Sound, DumpCarries, Settled
  <2>2. TypeOK /\ cells \in Seq(Cell) /\ (Whole(cells) \/ cells = <<>>)
    BY DEF Sound, Typed, Inv, TypeOK, Cells, SavedFileIsWhole
  <2> HIDE DEF cells
  <2>3. CASE /\ \A i \in Of(cells, k) : Past(cells[i].ttl, now)
             /\ Restored(cells).data[k] = Absent /\ Restored(cells).ttl[k] = NoTtl
    <3>1. data[k] = Absent \/ Past(ttl[k], now)
      BY <2>1, <2>3 DEF CarriesNow, Carries
    <3> QED BY <2>3, <3>1 DEF Visible, Loaded, cells, Past, Expired
  <2>4. CASE \E i \in DOMAIN cells :
               /\ Of(cells, k) = {i} /\ ~Past(cells[i].ttl, now)
               /\ Restored(cells).data[k] = cells[i].val
               /\ Restored(cells).ttl[k] = cells[i].ttl
    <3>1. Restored(cells).data[k] = data[k] /\ Restored(cells).ttl[k] = ttl[k]
      BY <2>1, <2>4 DEF CarriesNow, Carries
    <3> QED BY <3>1 DEF Visible, Loaded, cells
  <2> QED BY <2>2, <2>3, <2>4, LoadOfWhole
<1> QED BY <1>1, SoundIsInvariant, PTL
=============================================================================
