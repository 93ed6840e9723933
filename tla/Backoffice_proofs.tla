--------------------------- MODULE Backoffice_proofs ---------------------------
(***************************************************************************)
(* Proofs about what goes on behind the screens: images, exports, the      *)
(* papers of drivers, events and payouts.  They share no state; each is a  *)
(* specification of its own and has its own inductive invariant here.      *)
(***************************************************************************)
EXTENDS MCBackoffice, Payments_proofs, Sums_proofs

-----------------------------------------------------------------------------
(***************************************************************************)
(* Images.  What a column shows was written, and what one Confirm wrote    *)
(* is shown in its own column only.  So the previous key of a call, which  *)
(* it read in that column, either was written more often or is no longer   *)
(* shown once the call has put its own key there; and what a Confirm has   *)
(* looked at is not deleted before it is written, for nothing reads it as  *)
(* previous.                                                               *)
(***************************************************************************)
CallRecords == [
    step : {"idle", "checked", "writing", "delete"}, key : Uploads \cup {NoImage},
    at : Columns \cup {NoImage}, previous : Uploads \cup {NoImage}]

ShownInPlace ==
    \A k \in Columns : image[k] # NoImage =>
        /\ written[image[k]] # "never"
        /\ written[image[k]] = "once" => k = ColumnOf[image[k]]

\* The column of a call is that of its key, and what it looked at is there.
KeyKept(r) ==
    r.step # "idle" =>
        /\ r.at \in Columns
        /\ r.key # NoImage =>
            /\ r.at = ColumnOf[r.key]
            /\ r.step # "delete" /\ written[r.key] = "never" => object[r.key] = "fit"

\* The previous key is one that was written, and not one to be kept.
PreviousKept(r) ==
    r.step \in {"writing", "delete"} /\ r.previous # NoImage =>
        /\ written[r.previous] # "never"
        /\ written[r.previous] = "once" =>
            /\ r.at = ColumnOf[r.previous]
            /\ r.step = "delete" /\ r.previous # r.key => image[r.at] # r.previous

ImagesInv ==
    /\ ImagesTypeOK
    /\ ShownImageIsStored
    /\ ShownInPlace
    /\ \A c \in MediaCalls : KeyKept(call[c]) /\ PreviousKept(call[c])

\* The call of c becomes r; the others stay.
LEMMA CallMoves ==
    ASSUME ImagesTypeOK, NEW c \in MediaCalls, NEW r \in CallRecords,
           call' = [call EXCEPT ![c] = r]
    PROVE  /\ call' \in [MediaCalls -> CallRecords]
           /\ call'[c] = r
           /\ \A o \in MediaCalls \ {c} : call'[o] = call[o]
  BY DEF ImagesTypeOK, CallRecords

\* Deleting an object changes no other.
LEMMA WithoutOnly ==
    ASSUME ImagesTypeOK, NEW i \in Uploads \cup {NoImage}, NEW ok \in BOOLEAN
    PROVE  /\ Without(i, ok) \in [Uploads -> {"unsigned", "none", "fit", "unfit"}]
           /\ \A j \in Uploads : ~ ok \/ j # i => Without(i, ok)[j] = object[j]
  BY DEF ImagesTypeOK, Without

\* Objects and histories change so that what is kept stays kept: a key that is
\* written less than it was, or deleted while it counts, is not among them.
LEMMA OthersKept ==
    ASSUME ImagesInv, NEW c \in MediaCalls,
           \A o \in MediaCalls \ {c} : call'[o] = call[o],
           UNCHANGED image,
           \A j \in Uploads :
               /\ written[j] = written'[j] \/ written'[j] = "again"
               /\ written[j] = "never" /\ object[j] = "fit" /\ written'[j] = "never" => object'[j] = "fit"
    PROVE  \A o \in MediaCalls \ {c} : KeyKept(call[o])' /\ PreviousKept(call[o])'
<1>1. ASSUME NEW o \in MediaCalls \ {c}
      PROVE  KeyKept(call[o])'
  BY <1>1 DEF ImagesInv, ImagesTypeOK, KeyKept
<1>2. ASSUME NEW o \in MediaCalls \ {c}
      PROVE  PreviousKept(call[o])'
  BY <1>2 DEF ImagesInv, ImagesTypeOK, PreviousKept
<1> QED
  BY <1>1, <1>2

LEMMA ImagesStep == ImagesInv /\ [ImagesNext]_imageVars => ImagesInv'
<1> SUFFICES ASSUME ImagesInv, [ImagesNext]_imageVars
             PROVE  ImagesInv'
  OBVIOUS
<1> USE ImagesAssumption
<1>t. ImagesTypeOK
  BY DEF ImagesInv
<1>k. \A c \in MediaCalls : KeyKept(call[c]) /\ PreviousKept(call[c])
  BY DEF ImagesInv
<1>c. \A c \in MediaCalls : call[c] \in CallRecords
  BY <1>t DEF ImagesTypeOK, CallRecords
<1>i. NoCall \in CallRecords /\ \A r : r = NoCall => r.step = "idle"
  BY DEF NoCall, CallRecords
\* A key is signed, or an object put.
<1>1. ASSUME NEW i \in Uploads, UploadURL(i) \/ \E fits \in BOOLEAN : PutObject(i, fits)
      PROVE  ImagesInv'
  <2>1. ImagesTypeOK'
    <3>1. CASE UploadURL(i)
      BY <3>1, <1>t DEF UploadURL, ImagesTypeOK
    <3>2. CASE \E fits \in BOOLEAN : PutObject(i, fits)
      BY <3>2, <1>t DEF PutObject, ImagesTypeOK
    <3> QED
      BY <1>1, <3>1, <3>2
  <2>2. /\ UNCHANGED <<image, call>>
        /\ \A j \in Uploads \ {i} : object'[j] = object[j] /\ written'[j] = written[j]
        /\ written'[i] = written[i] \/ written'[i] = "again"
        /\ object[i] = "fit" /\ object'[i] # object[i] => written'[i] = "again"
    BY <1>1, <1>t DEF UploadURL, PutObject, ImagesTypeOK
  <2>3. ShownImageIsStored'
    BY <2>2, <1>t DEF ImagesInv, ImagesTypeOK, ShownImageIsStored
  <2>4. ShownInPlace'
    BY <2>2, <1>t DEF ImagesInv, ImagesTypeOK, ShownInPlace
  <2>5. ASSUME NEW c \in MediaCalls PROVE KeyKept(call[c])' /\ PreviousKept(call[c])'
    <3>1. KeyKept(call[c])'
      BY <2>2, <1>k, <1>t, <1>c DEF ImagesTypeOK, KeyKept, CallRecords
    <3>2. PreviousKept(call[c])'
      BY <2>2, <1>k, <1>t, <1>c DEF ImagesTypeOK, PreviousKept, CallRecords
    <3> QED
      BY <3>1, <3>2
  <2> QED
    BY <2>1, <2>3, <2>4, <2>5 DEF ImagesInv
\* An object that is not as promised goes: none that counts.
<1>2. ASSUME NEW c \in MediaCalls, NEW i \in Uploads, CheckObject(c, i)
      PROVE  ImagesInv'
  <2>1. CASE object[i] = "fit"
    <3> DEFINE r == [step |-> "checked", key |-> i, at |-> ColumnOf[i], previous |-> NoImage]
    <3>1. r \in CallRecords
      BY DEF CallRecords
    <3>2. call' = [call EXCEPT ![c] = r] /\ UNCHANGED <<object, image, written>>
      BY <1>2, <2>1 DEF CheckObject
    <3>3. /\ call' \in [MediaCalls -> CallRecords]
          /\ call'[c] = r
          /\ \A o \in MediaCalls \ {c} : call'[o] = call[o]
      BY <3>1, <3>2, <1>t, CallMoves
    <3>4. \A o \in MediaCalls \ {c} : KeyKept(call[o])' /\ PreviousKept(call[o])'
      BY <3>2, <3>3, OthersKept
    <3>5. KeyKept(call[c])' /\ PreviousKept(call[c])'
      BY <3>2, <3>3, <2>1 DEF KeyKept, PreviousKept
    <3>6. ImagesTypeOK' /\ ShownImageIsStored' /\ ShownInPlace'
      BY <3>2, <3>3, <1>t DEF ImagesInv, ImagesTypeOK, ShownImageIsStored, ShownInPlace, CallRecords
    <3> QED
      BY <3>4, <3>5, <3>6 DEF ImagesInv
  <2>2. CASE object[i] # "fit"
    <3>1. /\ UNCHANGED <<image, call, written>>
          /\ object' = [object EXCEPT ![i] = "none"]
      BY <1>2, <2>2 DEF CheckObject
    <3>2. ImagesTypeOK' /\ \A j \in Uploads : object[j] = "fit" => object'[j] = "fit"
      BY <3>1, <2>2, <1>t DEF ImagesTypeOK
    <3>3. ShownImageIsStored' /\ ShownInPlace'
      BY <3>1, <3>2, <1>t DEF ImagesInv, ImagesTypeOK, ShownImageIsStored, ShownInPlace
    <3>4. ASSUME NEW o \in MediaCalls PROVE KeyKept(call[o])' /\ PreviousKept(call[o])'
      BY <3>1, <3>2, <1>k, <1>c DEF KeyKept, PreviousKept, CallRecords
    <3> QED
      BY <3>2, <3>3, <3>4 DEF ImagesInv
  <2> QED
    BY <2>1, <2>2
<1>3. ASSUME NEW c \in MediaCalls, NEW k \in Columns, Remove(c, k)
      PROVE  ImagesInv'
  <2> DEFINE r == [step |-> "checked", key |-> NoImage, at |-> k, previous |-> NoImage]
  <2>1. r \in CallRecords
    BY DEF CallRecords
  <2>2. call' = [call EXCEPT ![c] = r] /\ UNCHANGED <<object, image, written>>
    BY <1>3 DEF Remove
  <2>3. /\ call' \in [MediaCalls -> CallRecords]
        /\ call'[c] = r
        /\ \A o \in MediaCalls \ {c} : call'[o] = call[o]
    BY <2>1, <2>2, <1>t, CallMoves
  <2>4. \A o \in MediaCalls \ {c} : KeyKept(call[o])' /\ PreviousKept(call[o])'
    BY <2>2, <2>3, OthersKept
  <2>5. KeyKept(call[c])' /\ PreviousKept(call[c])'
    BY <2>2, <2>3 DEF KeyKept, PreviousKept
  <2>6. ImagesTypeOK' /\ ShownImageIsStored' /\ ShownInPlace'
    BY <2>2, <2>3, <1>t DEF ImagesInv, ImagesTypeOK, ShownImageIsStored, ShownInPlace, CallRecords
  <2> QED
    BY <2>4, <2>5, <2>6 DEF ImagesInv
\* The previous key is the one shown, and so is in its place.
<1>4. ASSUME NEW c \in MediaCalls, ConfirmReads(c)
      PROVE  ImagesInv'
  <2> DEFINE r == [step |-> "writing", key |-> call[c].key, at |-> call[c].at, previous |-> image[call[c].at]]
  <2>0. call[c].step = "checked" /\ call[c].at \in Columns
    BY <1>4, <1>k DEF ConfirmReads, KeyKept
  <2>1. r \in CallRecords
    BY <2>0, <1>c, <1>t DEF CallRecords, ImagesTypeOK
  <2>2. call' = [call EXCEPT ![c] = r] /\ UNCHANGED <<object, image, written>>
    BY <1>4 DEF ConfirmReads
  <2>3. /\ call' \in [MediaCalls -> CallRecords]
        /\ call'[c] = r
        /\ \A o \in MediaCalls \ {c} : call'[o] = call[o]
    BY <2>1, <2>2, <1>t, CallMoves
  <2>4. \A o \in MediaCalls \ {c} : KeyKept(call[o])' /\ PreviousKept(call[o])'
    BY <2>2, <2>3, OthersKept
  <2>5. KeyKept(call[c])'
    BY <2>0, <2>2, <2>3, <1>k DEF KeyKept
  <2>6. PreviousKept(call[c])'
    BY <2>0, <2>2, <2>3 DEF ImagesInv, ShownInPlace, PreviousKept
  <2>7. ImagesTypeOK' /\ ShownImageIsStored' /\ ShownInPlace'
    BY <2>2, <2>3, <1>t DEF ImagesInv, ImagesTypeOK, ShownImageIsStored, ShownInPlace, CallRecords
  <2> QED
    BY <2>4, <2>5, <2>6, <2>7 DEF ImagesInv
\* The key of the call takes the column; what it saw there before is gone
\* from it, and a key now written for the first time was no one's previous.
<1>5. ASSUME NEW c \in MediaCalls, ConfirmCommits(c)
      PROVE  ImagesInv'
  <2> DEFINE i == call[c].key
             k == call[c].at
             r == [step |-> "delete", key |-> i, at |-> k, previous |-> call[c].previous]
  <2>0. call[c].step = "writing" /\ k \in Columns /\ i \in Uploads \cup {NoImage}
    BY <1>5, <1>k, <1>c DEF ConfirmCommits, KeyKept, CallRecords
  <2>1. r \in CallRecords
    BY <1>c DEF CallRecords
  <2>2. call' = [call EXCEPT ![c] = r]
    <3>1. call' = [call EXCEPT ![c] = [call[c] EXCEPT !.step = "delete"]]
      BY <1>5 DEF ConfirmCommits
    <3>2. [call[c] EXCEPT !.step = "delete"] = r
      BY <1>c DEF CallRecords
    <3> QED
      BY <3>1, <3>2
  <2>3. /\ call' \in [MediaCalls -> CallRecords]
        /\ call'[c] = r
        /\ \A o \in MediaCalls \ {c} : call'[o] = call[o]
    BY <2>1, <2>2, <1>t, CallMoves
  <2>4. /\ UNCHANGED object
        /\ image'[k] = i
        /\ \A l \in Columns \ {k} : image'[l] = image[l]
        /\ image' \in [Columns -> Uploads \cup {NoImage}]
    BY <2>0, <1>5, <1>t DEF ConfirmCommits, ImagesTypeOK
  <2>5. /\ i \in Uploads => written'[i] = IF written[i] = "never" THEN "once" ELSE "again"
        /\ \A j \in Uploads : j # i => written'[j] = written[j]
        /\ written' \in [Uploads -> {"never", "once", "again"}]
    <3>1. CASE i = NoImage
      BY <3>1, <1>5, <1>t DEF ConfirmCommits, ImagesTypeOK
    <3>2. CASE i \in Uploads
      BY <3>2, <1>5, <1>t DEF ConfirmCommits, ImagesTypeOK
    <3> QED
      BY <2>0, <3>1, <3>2
  <2>6. ImagesTypeOK'
    BY <2>3, <2>4, <2>5, <1>t DEF ImagesTypeOK, CallRecords
  <2>7. i \in Uploads => k = ColumnOf[i] /\ (written[i] = "never" => object[i] = "fit")
    BY <2>0, <1>k DEF KeyKept
  <2>8. \A l \in Columns : l # k => (image[l] = i => i = NoImage \/ written'[i] = "again")
    BY <2>0, <2>5 DEF ImagesInv, ShownInPlace
  <2>9. ShownImageIsStored'
    BY <2>0, <2>4, <2>5, <2>7, <2>8 DEF ImagesInv, ImagesTypeOK, ShownImageIsStored
  <2>10. ShownInPlace'
    BY <2>0, <2>4, <2>5, <2>7, <2>8 DEF ImagesInv, ImagesTypeOK, ShownInPlace
  <2>11. ASSUME NEW o \in MediaCalls \ {c} PROVE KeyKept(call[o])' /\ PreviousKept(call[o])'
    <3>0. call'[o] = call[o] /\ KeyKept(call[o]) /\ PreviousKept(call[o]) /\ call[o] \in CallRecords
      BY <2>3, <1>k, <1>c
    <3>1. KeyKept(call[o])'
      BY <3>0, <2>4, <2>5 DEF KeyKept, CallRecords
    <3>2. call[o].step \in {"writing", "delete"} /\ call[o].previous # NoImage /\ call[o].previous = i
             => written'[i] = "again"
      BY <3>0, <2>5 DEF PreviousKept, CallRecords
    <3>3. PreviousKept(call[o])'
      BY <3>0, <3>2, <2>0, <2>4, <2>5 DEF PreviousKept, CallRecords
    <3> QED
      BY <3>1, <3>3
  <2>12. KeyKept(call[c])'
    BY <2>0, <2>3, <2>7 DEF KeyKept
  <2>13. PreviousKept(call[c])'
    <3>0. PreviousKept(call[c]) /\ call[c] \in CallRecords
      BY <1>k, <1>c
    <3>1. CASE call[c].previous = i
      BY <3>0, <3>1, <2>0, <2>3, <2>5 DEF PreviousKept
    <3>2. CASE call[c].previous # i
      BY <3>0, <3>2, <2>0, <2>3, <2>4, <2>5 DEF PreviousKept, CallRecords
    <3> QED
      BY <3>1, <3>2
  <2> QED
    BY <2>6, <2>9, <2>10, <2>11, <2>12, <2>13 DEF ImagesInv
\* The object of the previous key goes; if it counts it is not shown.
<1>6. ASSUME NEW c \in MediaCalls, ConfirmFails(c) \/ \E ok \in BOOLEAN : DeletePrevious(c, ok)
      PROVE  ImagesInv'
  <2>1. call' = [call EXCEPT ![c] = NoCall] /\ UNCHANGED <<image, written>>
    BY <1>6 DEF ConfirmFails, DeletePrevious
  <2>2. /\ call' \in [MediaCalls -> CallRecords]
        /\ call'[c] = NoCall
        /\ \A o \in MediaCalls \ {c} : call'[o] = call[o]
    BY <2>1, <1>i, <1>t, CallMoves
  <2>3. /\ object' \in [Uploads -> {"unsigned", "none", "fit", "unfit"}]
        /\ \A j \in Uploads : object'[j] = object[j] \/ /\ call[c].step = "delete"
                                                        /\ j = call[c].previous /\ j # call[c].key
    <3>1. CASE ConfirmFails(c)
      BY <3>1, <1>t DEF ConfirmFails, ImagesTypeOK
    <3>2. ASSUME NEW ok \in BOOLEAN, DeletePrevious(c, ok)
          PROVE  /\ object' \in [Uploads -> {"unsigned", "none", "fit", "unfit"}]
                 /\ \A j \in Uploads : object'[j] = object[j] \/ /\ call[c].step = "delete"
                                                                 /\ j = call[c].previous /\ j # call[c].key
      <4> DEFINE del == ok /\ call[c].previous # call[c].key
      <4>1. del \in BOOLEAN /\ call[c].previous \in Uploads \cup {NoImage}
        BY <1>c DEF CallRecords
      <4>2. object' = Without(call[c].previous, del) /\ call[c].step = "delete"
        BY <3>2 DEF DeletePrevious
      <4>3. /\ object' \in [Uploads -> {"unsigned", "none", "fit", "unfit"}]
            /\ \A j \in Uploads : ~ del \/ j # call[c].previous => object'[j] = object[j]
        BY <4>1, <4>2, <1>t, WithoutOnly
      <4> QED
        BY <4>2, <4>3
    <3> QED
      BY <1>6, <3>1, <3>2
  <2>4. \A j \in Uploads : object'[j] # object[j] =>
            /\ written[j] # "never"
            /\ written[j] = "once" => \A k \in Columns : image[k] # j
    <3>0. PreviousKept(call[c]) /\ call[c] \in CallRecords
      BY <1>k, <1>c
    <3> SUFFICES ASSUME NEW j \in Uploads, object'[j] # object[j]
                 PROVE  /\ written[j] # "never"
                        /\ written[j] = "once" => \A k \in Columns : image[k] # j
      OBVIOUS
    <3>1. call[c].step = "delete" /\ j = call[c].previous /\ j # call[c].key /\ j # NoImage
      BY <2>3
    <3>2. /\ written[j] # "never"
          /\ written[j] = "once" => call[c].at = ColumnOf[j] /\ image[call[c].at] # j
      BY <3>0, <3>1 DEF PreviousKept
    <3> QED
      BY <3>2 DEF ImagesInv, ShownInPlace
  <2>5. \A o \in MediaCalls \ {c} : KeyKept(call[o])' /\ PreviousKept(call[o])'
    BY <2>1, <2>2, <2>4, OthersKept
  <2>6. KeyKept(call[c])' /\ PreviousKept(call[c])'
    BY <2>2, <1>i DEF KeyKept, PreviousKept
  <2>7. ImagesTypeOK'
    BY <2>1, <2>2, <2>3, <1>t DEF ImagesTypeOK, CallRecords
  <2>8. ShownImageIsStored' /\ ShownInPlace'
    BY <2>1, <2>4, <1>t DEF ImagesInv, ImagesTypeOK, ShownImageIsStored, ShownInPlace
  <2> QED
    BY <2>5, <2>6, <2>7, <2>8 DEF ImagesInv
\* A key that a request names counts no longer.
<1>7. ASSUME NEW k \in Columns, NEW i \in Uploads \cup {NoImage}, WriteKey(k, i)
      PROVE  ImagesInv'
  <2>1. /\ UNCHANGED <<object, call>>
        /\ image'[k] = i
        /\ \A l \in Columns \ {k} : image'[l] = image[l]
        /\ i \in Uploads => written'[i] = "again"
        /\ \A j \in Uploads : j # i => written'[j] = written[j]
    BY <1>7, <1>t DEF WriteKey, ImagesTypeOK
  <2>2. ImagesTypeOK'
    <3>1. image' \in [Columns -> Uploads \cup {NoImage}]
      BY <1>7, <1>t DEF WriteKey, ImagesTypeOK
    <3>2. written' \in [Uploads -> {"never", "once", "again"}]
      BY <1>7, <1>t DEF WriteKey, ImagesTypeOK
    <3> QED
      BY <3>1, <3>2, <2>1, <1>t DEF ImagesTypeOK
  <2>3. ShownImageIsStored'
    BY <2>1, <1>t DEF ImagesInv, ImagesTypeOK, ShownImageIsStored
  <2>4. ShownInPlace'
    BY <2>1, <1>t DEF ImagesInv, ImagesTypeOK, ShownInPlace
  <2>5. ASSUME NEW o \in MediaCalls PROVE KeyKept(call[o])' /\ PreviousKept(call[o])'
    <3>0. call'[o] = call[o] /\ KeyKept(call[o]) /\ PreviousKept(call[o]) /\ call[o] \in CallRecords
      BY <2>1, <1>k, <1>c
    <3>1. KeyKept(call[o])'
      BY <3>0, <2>1 DEF KeyKept, CallRecords
    <3>2. PreviousKept(call[o])'
      BY <3>0, <2>1 DEF PreviousKept, CallRecords, KeyKept
    <3> QED
      BY <3>1, <3>2
  <2> QED
    BY <2>2, <2>3, <2>4, <2>5 DEF ImagesInv
<1>8. CASE UNCHANGED imageVars
  <2>1. UNCHANGED <<object, image, call, written>>
    BY <1>8 DEF imageVars
  <2> QED
    BY <2>1 DEF ImagesInv, ImagesTypeOK, ShownImageIsStored, ShownInPlace, KeyKept, PreviousKept
<1> QED
  BY <1>1, <1>2, <1>3, <1>4, <1>5, <1>6, <1>7, <1>8 DEF ImagesNext

LEMMA ImagesInductive == ImagesSpec => []ImagesInv
<1>1. ImagesInit => ImagesInv
  BY ImagesAssumption
     DEF ImagesInit, ImagesInv, ImagesTypeOK, ShownImageIsStored, ShownInPlace, KeyKept, PreviousKept, NoCall
<1> QED
  BY <1>1, ImagesStep, PTL DEF ImagesSpec

\* The state of images is well typed.
THEOREM ImagesTypeCorrect == ImagesSpec => []ImagesTypeOK
  BY ImagesInductive, PTL DEF ImagesInv

\* The image that one Confirm put where it is shown is in the bucket, for any
\* number of uploads, columns and calls of Confirm and Remove side by side, and
\* of profiles that copy keys (media.go, Confirm and Remove).
THEOREM ShownIsStored == ImagesSpec => []ShownImageIsStored
  BY ImagesInductive, PTL DEF ImagesInv

-----------------------------------------------------------------------------
(***************************************************************************)
(* Exports.  A row that a worker builds is "building", and one that a      *)
(* sweep works on is over; no row is both, so the file that one has put is *)
(* never the one that the other deletes.                                   *)
(***************************************************************************)
Over(x) ==
    \/ export[x].status = "expired"
    \/ export[x].status = "ready" /\ export[x].over

Builders ==
    \A w \in ExportWorkers :
        /\ building[w].row # NoExport => export[building[w].row].status = "building"
        /\ building[w].put => building[w].row # NoExport /\ building[w].row \in files

Sweepers ==
    \A w \in ExportWorkers :
        /\ \A x \in sweeping[w].todo : Over(x)
        /\ sweeping[w].gone # NoExport => sweeping[w].gone \in sweeping[w].todo \ files

ExportsInv == ExportsTypeOK /\ Builders /\ Sweepers /\ ExportsKeepTheirWord

ExportRecord == [status : {"none", "pending", "building", "ready", "failed", "expired"},
                 over : BOOLEAN]

\* A row changes its status, and perhaps whether its week is over.
LEMMA ExportMoves ==
    ASSUME ExportsTypeOK, NEW x \in Exports,
           NEW s \in {"none", "pending", "building", "ready", "failed", "expired"},
           \/ export' = [export EXCEPT ![x].status = s]
           \/ export' = [export EXCEPT ![x] = [status |-> s, over |-> FALSE]]
    PROVE  /\ export' \in [Exports -> ExportRecord]
           /\ export'[x].status = s
           /\ \A y \in Exports \ {x} : export'[y] = export[y]
<1>1. export \in [Exports -> ExportRecord]
  BY DEF ExportsTypeOK, ExportRecord
<1>2. [export[x] EXCEPT !.status = s] \in ExportRecord
  BY <1>1 DEF ExportRecord
<1>3. [export[x] EXCEPT !.status = s].status = s
  BY <1>1 DEF ExportRecord
<1>4. [status |-> s, over |-> FALSE] \in ExportRecord
  BY DEF ExportRecord
<1>5. PICK r \in ExportRecord : r.status = s /\ export' = [export EXCEPT ![x] = r]
  BY <1>2, <1>3, <1>4
<1> QED
  BY <1>1, <1>5

\* A row's week is over, its status stays.
LEMMA ExportIsOver ==
    ASSUME ExportsTypeOK, NEW x \in Exports, NEW o \in BOOLEAN,
           export' = [export EXCEPT ![x].over = o]
    PROVE  /\ export' \in [Exports -> ExportRecord]
           /\ export'[x] = [status |-> export[x].status, over |-> o]
           /\ \A y \in Exports \ {x} : export'[y] = export[y]
<1>1. export \in [Exports -> ExportRecord]
  BY DEF ExportsTypeOK, ExportRecord
<1>2. [export[x] EXCEPT !.over = o] = [status |-> export[x].status, over |-> o]
  BY <1>1 DEF ExportRecord
<1>3. export' = [export EXCEPT ![x] = [status |-> export[x].status, over |-> o]]
  BY <1>2
<1>4. [status |-> export[x].status, over |-> o] \in ExportRecord
  BY <1>1 DEF ExportRecord
<1> QED
  BY <1>1, <1>3, <1>4

\* A worker takes on another row to build, or gets further with the one it has.
LEMMA BuildingMoves ==
    ASSUME ExportsTypeOK, NEW w \in ExportWorkers,
           NEW r \in Exports \cup {NoExport}, NEW p \in BOOLEAN,
           \/ building' = [building EXCEPT ![w] = [row |-> r, put |-> p]]
           \/ building' = [building EXCEPT ![w].row = r] /\ p = building[w].put
           \/ building' = [building EXCEPT ![w].put = p] /\ r = building[w].row
    PROVE  /\ building' \in [ExportWorkers -> [row : Exports \cup {NoExport}, put : BOOLEAN]]
           /\ building'[w] = [row |-> r, put |-> p]
           /\ \A v \in ExportWorkers \ {w} : building'[v] = building[v]
<1>1. building[w] \in [row : Exports \cup {NoExport}, put : BOOLEAN]
  BY DEF ExportsTypeOK
<1>2. /\ [building[w] EXCEPT !.row = r] = [row |-> r, put |-> building[w].put]
      /\ [building[w] EXCEPT !.put = p] = [row |-> building[w].row, put |-> p]
  BY <1>1
<1>3. /\ [building EXCEPT ![w].row = r] = [building EXCEPT ![w] = [building[w] EXCEPT !.row = r]]
      /\ [building EXCEPT ![w].put = p] = [building EXCEPT ![w] = [building[w] EXCEPT !.put = p]]
  OBVIOUS
<1>4. building' = [building EXCEPT ![w] = [row |-> r, put |-> p]]
  BY <1>2, <1>3
<1>5. [row |-> r, put |-> p] \in [row : Exports \cup {NoExport}, put : BOOLEAN]
  OBVIOUS
<1>6. building \in [ExportWorkers -> [row : Exports \cup {NoExport}, put : BOOLEAN]]
  BY DEF ExportsTypeOK
<1> QED
  BY <1>4, <1>5, <1>6

\* The same for what a sweep has left to do.
LEMMA SweepingMoves ==
    ASSUME ExportsTypeOK, NEW w \in ExportWorkers,
           NEW t \in SUBSET Exports, NEW g \in Exports \cup {NoExport},
           \/ sweeping' = [sweeping EXCEPT ![w] = [todo |-> t, gone |-> g]]
           \/ sweeping' = [sweeping EXCEPT ![w].todo = t] /\ g = sweeping[w].gone
           \/ sweeping' = [sweeping EXCEPT ![w].gone = g] /\ t = sweeping[w].todo
    PROVE  /\ sweeping' \in [ExportWorkers -> [todo : SUBSET Exports, gone : Exports \cup {NoExport}]]
           /\ sweeping'[w] = [todo |-> t, gone |-> g]
           /\ \A v \in ExportWorkers \ {w} : sweeping'[v] = sweeping[v]
<1>1. sweeping[w] \in [todo : SUBSET Exports, gone : Exports \cup {NoExport}]
  BY DEF ExportsTypeOK
<1>2. /\ [sweeping[w] EXCEPT !.todo = t] = [todo |-> t, gone |-> sweeping[w].gone]
      /\ [sweeping[w] EXCEPT !.gone = g] = [todo |-> sweeping[w].todo, gone |-> g]
  BY <1>1
<1>3. /\ [sweeping EXCEPT ![w].todo = t] = [sweeping EXCEPT ![w] = [sweeping[w] EXCEPT !.todo = t]]
      /\ [sweeping EXCEPT ![w].gone = g] = [sweeping EXCEPT ![w] = [sweeping[w] EXCEPT !.gone = g]]
  OBVIOUS
<1>4. sweeping' = [sweeping EXCEPT ![w] = [todo |-> t, gone |-> g]]
  BY <1>2, <1>3
<1>5. [todo |-> t, gone |-> g] \in [todo : SUBSET Exports, gone : Exports \cup {NoExport}]
  OBVIOUS
<1>6. sweeping \in [ExportWorkers -> [todo : SUBSET Exports, gone : Exports \cup {NoExport}]]
  BY DEF ExportsTypeOK
<1> QED
  BY <1>4, <1>5, <1>6

LEMMA ExportsStep == ExportsInv /\ [ExportsNext]_exportVars => ExportsInv'
<1> SUFFICES ASSUME ExportsInv, [ExportsNext]_exportVars
             PROVE  ExportsInv'
  OBVIOUS
<1> USE ExportsAssumption
<1>t. ExportsTypeOK
  BY DEF ExportsInv
<1>1. ASSUME NEW x \in Exports, RequestExport(x)
      PROVE  ExportsInv'
  <2>1. /\ export' \in [Exports -> ExportRecord]
        /\ export'[x].status = "pending"
        /\ \A y \in Exports \ {x} : export'[y] = export[y]
    BY <1>1, <1>t, ExportMoves DEF RequestExport
  <2>2. /\ latest' \in [ExportUsers -> Exports \cup {NoExport}]
        /\ latest'[Asking[x]] = x
        /\ \A u \in ExportUsers \ {Asking[x]} : latest'[u] = latest[u]
    BY <1>1, <1>t DEF RequestExport, ExportsTypeOK
  <2>3. /\ UNCHANGED <<files, building, sweeping>>
        /\ export[x].status = "none"
        /\ \A y \in Exports : Asking[y] = Asking[x] => ~OpenExport(y)
    BY <1>1 DEF RequestExport
  <2>4. ExportsTypeOK'
    BY <2>1, <2>2, <2>3, <1>t DEF ExportsTypeOK, ExportRecord
  <2>5. Builders'
    BY <2>1, <2>3, <1>t DEF ExportsInv, Builders, ExportsTypeOK
  <2>7. Sweepers'
    BY <2>1, <2>3, <1>t DEF ExportsInv, Sweepers, Over, ExportsTypeOK
  <2>6. ExportsKeepTheirWord'
    BY <2>1, <2>2, <2>3, <1>t DEF ExportsInv, ExportsKeepTheirWord, ShownStatus, OpenExport, ExportsTypeOK
  <2> QED
    BY <2>4, <2>5, <2>6, <2>7 DEF ExportsInv
<1>2. ASSUME NEW x \in Exports, RetentionEnds(x)
      PROVE  ExportsInv'
  <2>1. export[x].status = "ready" /\ ~export[x].over
    BY <1>2 DEF RetentionEnds
  <2>2. export' = [export EXCEPT ![x].over = TRUE]
    BY <1>2 DEF RetentionEnds
  <2>4. /\ export' \in [Exports -> ExportRecord]
        /\ export'[x] = [status |-> "ready", over |-> TRUE]
        /\ \A y \in Exports \ {x} : export'[y] = export[y]
    BY <2>1, <2>2, <1>t, ExportIsOver
  <2>5. /\ UNCHANGED <<files, latest, building, sweeping>>
        /\ export[x].status = "ready" /\ ~export[x].over
    BY <1>2 DEF RetentionEnds
  <2>6. ExportsTypeOK'
    BY <2>4, <2>5, <1>t DEF ExportsTypeOK, ExportRecord
  <2>7. Builders' /\ Sweepers'
    BY SMTT(60), <2>4, <2>5, <1>t DEF ExportsInv, Builders, Sweepers, Over, ExportsTypeOK
  <2>8. ExportsKeepTheirWord'
    BY SMTT(60), <2>4, <2>5, <1>t DEF ExportsInv, ExportsKeepTheirWord, ShownStatus, OpenExport, ExportsTypeOK
  <2> QED
    BY <2>6, <2>7, <2>8 DEF ExportsInv
<1>3. ASSUME NEW x \in Exports, NEW w \in ExportWorkers, BuildNext(w, x)
      PROVE  ExportsInv'
  <2>1. /\ export' \in [Exports -> ExportRecord]
        /\ export'[x].status = "building"
        /\ \A y \in Exports \ {x} : export'[y] = export[y]
    BY <1>3, <1>t, ExportMoves DEF BuildNext
  <2>2. ~building[w].put
    BY <1>3 DEF BuildNext, NotBuilding
  <2>3. /\ building' \in [ExportWorkers -> [row : Exports \cup {NoExport}, put : BOOLEAN]]
        /\ building'[w] = [row |-> x, put |-> FALSE]
        /\ \A v \in ExportWorkers \ {w} : building'[v] = building[v]
    <3>1. building[w].put = FALSE
      BY <1>3 DEF BuildNext, NotBuilding
    <3> QED
      BY <1>3, <1>t, <3>1, BuildingMoves DEF BuildNext
  <2>5. /\ UNCHANGED <<files, latest, sweeping>>
        /\ export[x].status = "pending"
    BY <1>3 DEF BuildNext
  <2>6. ExportsTypeOK'
    BY <2>1, <2>3, <2>5, <1>t DEF ExportsTypeOK, ExportRecord
  <2>7. Builders'
    BY SMTT(60), <2>1, <2>3, <2>5, <1>t DEF ExportsInv, Builders, ExportsTypeOK
  <2>8. Sweepers'
    BY SMTT(60), <2>1, <2>5, <1>t DEF ExportsInv, Sweepers, Over, ExportsTypeOK
  <2>9. \A v \in ExportWorkers : building[v].row # x
    BY <2>5, <1>t DEF ExportsInv, Builders, ExportsTypeOK
  <2>10. \A v, u \in ExportWorkers :
            building'[v].row = building'[u].row /\ v # u => building'[v].row = NoExport
    BY <2>3, <2>9 DEF ExportsInv, ExportsKeepTheirWord
  <2>11. ExportsKeepTheirWord'
    BY ZenonT(90), <2>1, <2>5, <2>10, <1>t DEF ExportsInv, ExportsKeepTheirWord, ShownStatus, OpenExport, ExportsTypeOK
  <2> QED
    BY <2>6, <2>7, <2>8, <2>11 DEF ExportsInv
<1>4. ASSUME NEW w \in ExportWorkers, PutFile(w)
      PROVE  ExportsInv'
  <2>1. building[w].row \in Exports
    BY <1>4, <1>t DEF PutFile, ExportsTypeOK
  <2>2. /\ building' \in [ExportWorkers -> [row : Exports \cup {NoExport}, put : BOOLEAN]]
        /\ building'[w] = [row |-> building[w].row, put |-> TRUE]
        /\ \A v \in ExportWorkers \ {w} : building'[v] = building[v]
    BY <1>4, <1>t, <2>1, BuildingMoves DEF PutFile
  <2>3. /\ UNCHANGED <<export, latest, sweeping>>
        /\ files' = files \cup {building[w].row}
    BY <1>4 DEF PutFile
  <2>4. export[building[w].row].status = "building"
    BY <2>1, <1>t, ExportsAssumption DEF ExportsInv, Builders
  <2>5. ExportsTypeOK'
    BY <2>1, <2>2, <2>3, <1>t DEF ExportsTypeOK
  <2>6. Builders'
    BY <2>1, <2>2, <2>3, <2>4, <1>t DEF ExportsInv, Builders, ExportsTypeOK
  <2>7. Sweepers'
    BY <2>3, <2>4, <1>t DEF ExportsInv, Sweepers, Over, ExportsTypeOK
  <2>8. \A v, u \in ExportWorkers :
            building'[v].row = building'[u].row /\ v # u => building'[v].row = NoExport
    BY <2>2 DEF ExportsInv, ExportsKeepTheirWord
  <2>9. ExportsKeepTheirWord'
    BY <2>3, <2>4, <2>8, <1>t DEF ExportsInv, ExportsKeepTheirWord, ShownStatus, OpenExport, ExportsTypeOK
  <2> QED
    BY <2>5, <2>6, <2>7, <2>9 DEF ExportsInv
<1>5. ASSUME NEW w \in ExportWorkers, MarkReady(w) \/ MarkExportFailed(w)
      PROVE  ExportsInv'
  <2> DEFINE x == building[w].row
  <2>0. building[w] \in [row : Exports \cup {NoExport}, put : BOOLEAN]
    BY <1>t DEF ExportsTypeOK
  <2>1. x \in Exports
    BY <1>5, <2>0 DEF MarkReady, MarkExportFailed, ExportsInv, Builders
  <2>2. export[x].status = "building"
    BY <2>1 DEF ExportsInv, Builders
  <2>3. /\ export' \in [Exports -> ExportRecord]
        /\ \A y \in Exports \ {x} : export'[y] = export[y]
        /\ export'[x].status = "failed" \/ (export'[x].status = "ready" /\ x \in files)
    <3>1. CASE MarkReady(w)
      <4>1. x \in files
        BY <3>1 DEF MarkReady, ExportsInv, Builders
      <4> QED
        BY <3>1, <4>1, <2>1, <1>t, ExportMoves DEF MarkReady
    <3>2. CASE MarkExportFailed(w)
      <4>1. export' = [export EXCEPT ![x].status = "failed"]
        BY <3>2 DEF MarkExportFailed
      <4> HIDE DEF x
      <4>2. /\ export' \in [Exports -> ExportRecord]
            /\ export'[x].status = "failed"
            /\ \A y \in Exports \ {x} : export'[y] = export[y]
        BY <4>1, <2>1, <1>t, ExportMoves
      <4> QED
        BY <4>2
    <3> QED
      BY <1>5, <3>1, <3>2
  <2>4. /\ building' \in [ExportWorkers -> [row : Exports \cup {NoExport}, put : BOOLEAN]]
        /\ building'[w] = [row |-> NoExport, put |-> FALSE]
        /\ \A v \in ExportWorkers \ {w} : building'[v] = building[v]
    BY <1>5, <1>t, BuildingMoves DEF MarkReady, MarkExportFailed, NotBuilding
  <2>5. UNCHANGED <<files, latest, sweeping>>
    BY <1>5 DEF MarkReady, MarkExportFailed
  <2>6. ExportsTypeOK'
    BY <2>3, <2>4, <2>5, <1>t DEF ExportsTypeOK, ExportRecord
  <2>7. \A v \in ExportWorkers \ {w} : building[v].row # x
    BY <2>1 DEF ExportsInv, ExportsKeepTheirWord
  <2>8. Builders'
    BY SMTT(60), <2>3, <2>4, <2>5, <2>7, <1>t DEF ExportsInv, Builders, ExportsTypeOK
  <2>9. Sweepers'
    BY <2>2, <2>3, <2>5, <1>t DEF ExportsInv, Sweepers, Over, ExportsTypeOK
  <2>10. \A v, u \in ExportWorkers :
            building'[v].row = building'[u].row /\ v # u => building'[v].row = NoExport
    BY <2>4 DEF ExportsInv, ExportsKeepTheirWord
  <2>11. ExportsKeepTheirWord'
    BY <2>2, <2>3, <2>5, <2>10, <1>t DEF ExportsInv, ExportsKeepTheirWord, ShownStatus, OpenExport, ExportsTypeOK
  <2> QED
    BY <2>6, <2>8, <2>9, <2>11 DEF ExportsInv
<1>6. ASSUME NEW w \in ExportWorkers, BuilderStops(w)
      PROVE  ExportsInv'
  <2>1. /\ building' \in [ExportWorkers -> [row : Exports \cup {NoExport}, put : BOOLEAN]]
        /\ building'[w] = [row |-> NoExport, put |-> FALSE]
        /\ \A v \in ExportWorkers \ {w} : building'[v] = building[v]
    BY <1>6, <1>t, BuildingMoves DEF BuilderStops, NotBuilding
  <2>2. UNCHANGED <<export, files, latest, sweeping>>
    BY <1>6 DEF BuilderStops
  <2>3. ExportsTypeOK' /\ Sweepers'
    BY <2>1, <2>2, <1>t DEF ExportsInv, ExportsTypeOK, Sweepers, Over
  <2>4. Builders'
    BY <2>1, <2>2 DEF ExportsInv, Builders
  <2>5. ExportsKeepTheirWord'
    BY <2>1, <2>2 DEF ExportsInv, ExportsKeepTheirWord, ShownStatus, OpenExport
  <2> QED
    BY <2>3, <2>4, <2>5 DEF ExportsInv
<1>7. ASSUME NEW w \in ExportWorkers,
             \/ ExpireOld(w)
             \/ \E x \in Exports : DeleteFile(w, x)
             \/ MarkExpired(w)
             \/ SweeperStops(w)
      PROVE  ExportsInv'
  <2>0. sweeping[w] \in [todo : SUBSET Exports, gone : Exports \cup {NoExport}]
    BY <1>t DEF ExportsTypeOK
  <2>1. CASE ExpireOld(w)
    <3>1. sweeping[w].gone = NoExport /\ OverdueExports \in SUBSET Exports
      BY <2>1 DEF ExpireOld, NotSweeping, OverdueExports
    <3>2. /\ sweeping' \in [ExportWorkers -> [todo : SUBSET Exports, gone : Exports \cup {NoExport}]]
          /\ sweeping'[w] = [todo |-> OverdueExports, gone |-> NoExport]
          /\ \A v \in ExportWorkers \ {w} : sweeping'[v] = sweeping[v]
      <4>1. sweeping' = [sweeping EXCEPT ![w].todo = OverdueExports]
        BY <2>1 DEF ExpireOld
      <4>2. NoExport = sweeping[w].gone /\ NoExport \in Exports \cup {NoExport}
        BY <3>1
      <4> HIDE DEF OverdueExports
      <4> QED
        BY Zenon, <3>1, <4>1, <4>2, <1>t, SweepingMoves
    <3>3. UNCHANGED <<export, files, latest, building>>
      BY <2>1 DEF ExpireOld
    <3>4. \A x \in OverdueExports : Over(x)
      BY DEF OverdueExports, Over
    <3>5. Sweepers'
      BY <3>2, <3>3, <3>4 DEF ExportsInv, Sweepers, Over
    <3> QED
      BY <3>2, <3>3, <3>5 DEF ExportsInv, ExportsTypeOK, Builders, ExportsKeepTheirWord, ShownStatus, OpenExport
  <2>2. ASSUME NEW x \in Exports, DeleteFile(w, x)
        PROVE  ExportsInv'
    <3>1. /\ sweeping' \in [ExportWorkers -> [todo : SUBSET Exports, gone : Exports \cup {NoExport}]]
          /\ sweeping'[w] = [todo |-> sweeping[w].todo, gone |-> x]
          /\ \A v \in ExportWorkers \ {w} : sweeping'[v] = sweeping[v]
      BY <2>0, <2>2, <1>t, SweepingMoves DEF DeleteFile
    <3>2. /\ UNCHANGED <<export, latest, building>>
          /\ files' = files \ {x} /\ x \in sweeping[w].todo
      BY <2>2 DEF DeleteFile
    <3>3. Over(x)
      BY <3>2 DEF ExportsInv, Sweepers
    <3>4. ExportsTypeOK'
      BY <3>1, <3>2, <1>t DEF ExportsTypeOK
    <3>5. Builders'
      BY <3>2, <3>3 DEF ExportsInv, Builders, Over
    <3>6. Sweepers'
      BY <3>1, <3>2 DEF ExportsInv, Sweepers, Over
    <3>7. ExportsKeepTheirWord'
      BY <3>2, <3>3 DEF ExportsInv, ExportsKeepTheirWord, ShownStatus, OpenExport, Over
    <3> QED
      BY <3>4, <3>5, <3>6, <3>7 DEF ExportsInv
  <2>3. CASE MarkExpired(w)
    <3> DEFINE x == sweeping[w].gone
    <3>1. x \in Exports /\ x \in sweeping[w].todo /\ x \notin files /\ Over(x)
      BY SMTT(60), <2>0, <2>3 DEF MarkExpired, ExportsInv, Sweepers
    <3>2. /\ export' \in [Exports -> ExportRecord]
          /\ export'[x].status = "expired"
          /\ \A y \in Exports \ {x} : export'[y] = export[y]
      BY <2>3, <3>1, <1>t, ExportMoves DEF MarkExpired
    <3>3. sweeping' = [sweeping EXCEPT ![w] = [todo |-> sweeping[w].todo \ {x}, gone |-> NoExport]]
      BY <2>3 DEF MarkExpired
    <3>4. /\ sweeping' \in [ExportWorkers -> [todo : SUBSET Exports, gone : Exports \cup {NoExport}]]
          /\ sweeping'[w] = [todo |-> sweeping[w].todo \ {x}, gone |-> NoExport]
          /\ \A v \in ExportWorkers \ {w} : sweeping'[v] = sweeping[v]
      BY ZenonT(90), <2>0, <3>3, <1>t, SweepingMoves
    <3>5. UNCHANGED <<files, latest, building>>
      BY <2>3 DEF MarkExpired
    <3>6. ExportsTypeOK'
      BY <3>2, <3>4, <3>5, <1>t DEF ExportsTypeOK, ExportRecord
    <3>7. Builders'
      BY ZenonT(90), <3>1, <3>2, <3>5, <1>t DEF ExportsInv, Builders, Over, ExportsTypeOK
    <3>8. \A y \in Exports : Over(y) => Over(y)'
      BY <3>2 DEF Over
    <3>9. Sweepers'
      BY SMTT(60), <3>1, <3>4, <3>5, <3>8, <1>t DEF ExportsInv, Sweepers, ExportsTypeOK
    <3>10. ExportsKeepTheirWord'
      BY SMTT(60), <3>1, <3>2, <3>5, <1>t DEF ExportsInv, ExportsKeepTheirWord, ShownStatus, OpenExport, Over, ExportsTypeOK
    <3> QED
      BY <3>6, <3>7, <3>9, <3>10 DEF ExportsInv
  <2>4. CASE SweeperStops(w)
    <3>1. /\ sweeping' \in [ExportWorkers -> [todo : SUBSET Exports, gone : Exports \cup {NoExport}]]
          /\ sweeping'[w] = [todo |-> {}, gone |-> NoExport]
          /\ \A v \in ExportWorkers \ {w} : sweeping'[v] = sweeping[v]
      BY <2>4, <1>t, SweepingMoves DEF SweeperStops, NotSweeping
    <3>2. UNCHANGED <<export, files, latest, building>>
      BY <2>4 DEF SweeperStops
    <3>3. Sweepers'
      BY <3>1, <3>2 DEF ExportsInv, Sweepers, Over
    <3> QED
      BY <3>1, <3>2, <3>3 DEF ExportsInv, ExportsTypeOK, Builders, ExportsKeepTheirWord, ShownStatus, OpenExport
  <2> QED
    BY <1>7, <2>1, <2>2, <2>3, <2>4
<1>8. CASE UNCHANGED exportVars
  BY <1>8 DEF exportVars, ExportsInv, ExportsTypeOK, Builders, Sweepers, Over,
              ExportsKeepTheirWord, ShownStatus, OpenExport
<1> QED
  BY <1>1, <1>2, <1>3, <1>4, <1>5, <1>6, <1>7, <1>8 DEF ExportsNext

LEMMA ExportsInductive == ExportsSpec => []ExportsInv
<1>1. ExportsInit => ExportsInv
  BY ExportsAssumption
     DEF ExportsInit, ExportsInv, ExportsTypeOK, Builders, Sweepers, ExportsKeepTheirWord,
         ShownStatus, OpenExport, NotBuilding, NotSweeping
<1> QED
  BY <1>1, ExportsStep, PTL DEF ExportsSpec

\* The state of exports is well typed.
THEOREM ExportsTypeCorrect == ExportsSpec => []ExportsTypeOK
  BY ExportsInductive, PTL DEF ExportsInv

\* A link that is shown leads to a file, an expired row has none, a request has
\* one builder and a user one open request, for any number of workers that end
\* wherever they are (dataexport.go, BuildNext and ExpireOld).
THEOREM ExportsKeepWord == ExportsSpec => []ExportsKeepTheirWord
  BY ExportsInductive, PTL DEF ExportsInv
-----------------------------------------------------------------------------
(***************************************************************************)
(* Papers.  What Operations approved stays vetted, so a call of Approve    *)
(* that has passed its check carries the vetting to its commit, whatever   *)
(* the sweep or a new upload does to the rows meanwhile.                   *)
(***************************************************************************)
PaperStatus == {"none", "replaced"} \cup Current
PaperRecord == [status : PaperStatus, age : 0 .. 2, vetted : BOOLEAN]
DriverStatus == {"none", "pending", "approved", "suspended"}
Capabilities == {"RIDE_DRIVER", "TAXI_DRIVER"}
DriverRecord == [status : DriverStatus, taxi : BOOLEAN, caps : SUBSET Capabilities]
ApprovalRecord == [step : {"no", "check", "commit"}, taxi : BOOLEAN]

AllVetted(d) == \A t \in RequiredTypes : WasVetted(d, t)

ApprovedPapersAreVetted == \A p \in Papers : paper[p].status = "approved" => paper[p].vetted
CommitsAreVetted == \A d \in PaperDrivers : approving[d].step = "commit" => AllVetted(d)

PapersInv ==
    /\ PapersTypeOK
    /\ ApprovedWasVetted
    /\ ApprovedPapersAreVetted
    /\ CommitsAreVetted

\* No row loses its vetting, and an approved one has it.
KeepsVetting ==
    \A p \in Papers :
        /\ paper[p].vetted => paper'[p].vetted
        /\ paper'[p].status = "approved" => paper'[p].vetted

\* A step that only writes papers keeps the invariant if it keeps the vetting.
LEMMA PapersMove ==
    ASSUME PapersInv, paper' \in [Papers -> PaperRecord], KeepsVetting,
           UNCHANGED <<driver, approving>>,
           confirming' \subseteq Papers, replacing' \in [Papers -> SUBSET Papers],
           sweep' \in [todo : SUBSET PaperDrivers, at : PaperDrivers \cup {NoPaperDriver}]
    PROVE  PapersInv'
<1>1. \A d \in PaperDrivers : AllVetted(d) => AllVetted(d)'
  BY DEF AllVetted, WasVetted, KeepsVetting
<1>2. PapersTypeOK'
  BY DEF PapersInv, PapersTypeOK, PaperRecord, PaperStatus
<1>3. ApprovedWasVetted'
  BY <1>1 DEF PapersInv, ApprovedWasVetted, AllVetted
<1>4. ApprovedPapersAreVetted'
  BY DEF KeepsVetting, ApprovedPapersAreVetted
<1>5. CommitsAreVetted'
  BY <1>1 DEF PapersInv, CommitsAreVetted
<1> QED
  BY <1>2, <1>3, <1>4, <1>5 DEF PapersInv

\* A step that leaves the papers alone: what it must keep of one driver.
LEMMA DriverMoves ==
    ASSUME PapersInv, NEW d \in PaperDrivers,
           NEW r \in DriverRecord, NEW a \in ApprovalRecord,
           driver' = [driver EXCEPT ![d] = r], approving' = [approving EXCEPT ![d] = a],
           UNCHANGED <<paper, confirming, replacing>>,
           sweep' \in [todo : SUBSET PaperDrivers, at : PaperDrivers \cup {NoPaperDriver}],
           r.status = "approved" => "RIDE_DRIVER" \in r.caps /\ AllVetted(d),
           r.caps # {} => r.status = "approved",
           a.step = "commit" => AllVetted(d)
    PROVE  PapersInv'
<1>1. /\ driver \in [PaperDrivers -> DriverRecord]
      /\ approving \in [PaperDrivers -> ApprovalRecord]
  BY DEF PapersInv, PapersTypeOK, DriverRecord, DriverStatus, Capabilities, ApprovalRecord
<1>2. /\ driver' \in [PaperDrivers -> DriverRecord]
      /\ driver'[d] = r /\ \A e \in PaperDrivers \ {d} : driver'[e] = driver[e]
  BY <1>1
<1>3. /\ approving' \in [PaperDrivers -> ApprovalRecord]
      /\ approving'[d] = a /\ \A e \in PaperDrivers \ {d} : approving'[e] = approving[e]
  BY <1>1
<1>4. \A e \in PaperDrivers : AllVetted(e) = AllVetted(e)'
  BY DEF AllVetted, WasVetted
<1>5. PapersTypeOK'
  BY <1>2, <1>3 DEF PapersInv, PapersTypeOK, DriverRecord, DriverStatus, Capabilities, ApprovalRecord
<1>6. ApprovedWasVetted'
  BY <1>2, <1>4 DEF PapersInv, ApprovedWasVetted, AllVetted
<1>7. CommitsAreVetted'
  BY <1>3, <1>4 DEF PapersInv, CommitsAreVetted
<1>8. ApprovedPapersAreVetted'
  BY DEF PapersInv, ApprovedPapersAreVetted
<1> QED
  BY <1>5, <1>6, <1>7, <1>8 DEF PapersInv

\* An eligible driver holds an approved paper of every required type.
LEMMA EligibleIsVetted ==
    ASSUME PapersInv, NEW d \in PaperDrivers, Eligible(d)
    PROVE  AllVetted(d)
<1> SUFFICES ASSUME NEW t \in RequiredTypes
             PROVE  WasVetted(d, t)
  BY DEF AllVetted
<1>1. Holds(d, t)
  BY DEF Eligible, RequiredFor, Types
<1>2. PICK p \in Approved(d, t) : TRUE
  BY <1>1 DEF Holds
<1> QED
  BY <1>2 DEF Approved, WasVetted, PapersInv, ApprovedPapersAreVetted

LEMMA PapersStep == PapersInv /\ [PapersNext]_paperVars => PapersInv'
<1> SUFFICES ASSUME PapersInv, [PapersNext]_paperVars
             PROVE  PapersInv'
  OBVIOUS
<1> USE PapersAssumption
<1> DEFINE SweepType == [todo : SUBSET PaperDrivers, at : PaperDrivers \cup {NoPaperDriver}]
<1>t. /\ paper \in [Papers -> PaperRecord]
      /\ confirming \subseteq Papers
      /\ replacing \in [Papers -> SUBSET Papers]
      /\ driver \in [PaperDrivers -> DriverRecord]
      /\ approving \in [PaperDrivers -> ApprovalRecord]
      /\ sweep \in SweepType
  BY DEF PapersInv, PapersTypeOK, PaperRecord, PaperStatus, DriverRecord, DriverStatus,
         Capabilities, ApprovalRecord
<1>v. ApprovedPapersAreVetted
  BY DEF PapersInv
<1>s. \A d \in PaperDrivers : driver' = driver => driver' = [driver EXCEPT ![d] = driver[d]]
  BY <1>t
<1>a. \A d \in PaperDrivers : approving' = approving => approving' = [approving EXCEPT ![d] = approving[d]]
  BY <1>t
<1>k. \A d \in PaperDrivers :
        /\ driver[d].status = "approved" => "RIDE_DRIVER" \in driver[d].caps /\ AllVetted(d)
        /\ driver[d].caps # {} => driver[d].status = "approved"
        /\ approving[d].step = "commit" => AllVetted(d)
  BY DEF PapersInv, ApprovedWasVetted, CommitsAreVetted, AllVetted
<1>1. ASSUME NEW p \in Papers, ConfirmReplaces(p)
      PROVE  PapersInv'
  <2>1. confirming' \subseteq Papers /\ replacing' \in [Papers -> SUBSET Papers]
    BY <1>1, <1>t DEF ConfirmReplaces, RowsLike
  <2>2. UNCHANGED <<paper, driver, approving, sweep>>
    BY <1>1 DEF ConfirmReplaces
  <2>3. KeepsVetting
    BY <2>2, <1>v DEF KeepsVetting, ApprovedPapersAreVetted
  <2> QED
    BY <2>1, <2>2, <2>3, <1>t, PapersMove
<1>2. ASSUME NEW p \in Papers, ConfirmPaperCommits(p)
      PROVE  PapersInv'
  <2>1. \A q \in Papers, s \in PaperStatus :
            [paper[q] EXCEPT !.status = s] = [status |-> s, age |-> paper[q].age, vetted |-> paper[q].vetted]
    BY <1>t DEF PaperRecord
  <2>2. /\ DOMAIN paper' = Papers /\ paper' = [q \in Papers |-> paper'[q]]
        /\ \A q \in Papers :
            \/ paper'[q] = paper[q]
            \/ paper'[q] = [status |-> "pending", age |-> paper[q].age, vetted |-> paper[q].vetted]
            \/ paper'[q] = [status |-> "replaced", age |-> paper[q].age, vetted |-> paper[q].vetted]
    BY <1>2, <2>1 DEF ConfirmPaperCommits, PaperStatus, Current
  <2>3. \A q \in Papers : paper'[q] \in PaperRecord
    BY <2>2, <1>t DEF PaperRecord, PaperStatus, Current
  <2>4. KeepsVetting
    BY <2>2, <1>v DEF KeepsVetting, ApprovedPapersAreVetted
  <2>5. /\ confirming' \subseteq Papers /\ replacing' \in [Papers -> SUBSET Papers]
        /\ UNCHANGED <<driver, approving, sweep>>
    BY <1>2, <1>t DEF ConfirmPaperCommits
  <2> QED
    BY <2>2, <2>3, <2>4, <2>5, <1>t, PapersMove
<1>3. ASSUME NEW p \in Papers, NEW verdict \in {"approved", "rejected"}, Review(p, verdict)
      PROVE  PapersInv'
  <2> DEFINE v == paper[p].vetted \/ verdict = "approved"
  <2>1. [paper[p] EXCEPT !.status = verdict, !.vetted = v] = [status |-> verdict, age |-> paper[p].age, vetted |-> v]
    <3>1. [paper[p] EXCEPT !.status = verdict, !.vetted = v] = [[paper[p] EXCEPT !.status = verdict] EXCEPT !.vetted = v]
      BY Zenon
    <3>2. [paper[p] EXCEPT !.status = verdict] = [status |-> verdict, age |-> paper[p].age, vetted |-> paper[p].vetted]
      BY <1>t DEF PaperRecord
    <3>3. [[status |-> verdict, age |-> paper[p].age, vetted |-> paper[p].vetted] EXCEPT !.vetted = v] = [status |-> verdict, age |-> paper[p].age, vetted |-> v]
      OBVIOUS
    <3> QED
      BY <3>1, <3>2, <3>3
  <2>2. paper' = [paper EXCEPT ![p] = [status |-> verdict, age |-> paper[p].age, vetted |-> v]]
    BY <1>3, <2>1 DEF Review
  <2>3. [status |-> verdict, age |-> paper[p].age, vetted |-> v] \in PaperRecord
    BY <1>t DEF PaperRecord, PaperStatus, Current
  <2>4. paper' \in [Papers -> PaperRecord]
    BY <2>2, <2>3, <1>t
  <2>5. KeepsVetting
    BY <2>2, <1>t, <1>v DEF KeepsVetting, ApprovedPapersAreVetted
  <2>6. UNCHANGED <<confirming, replacing, driver, approving, sweep>>
    BY <1>3 DEF Review
  <2> QED
    BY <2>4, <2>5, <2>6, <1>t, PapersMove
<1>4. ASSUME NEW p \in Papers, GrowsOld(p)
      PROVE  PapersInv'
  <2> DEFINE n == paper[p].age + 1
  <2>1. paper[p] \in PaperRecord /\ paper[p].age < 2
    BY <1>4, <1>t DEF GrowsOld
  <2>2. n \in 0 .. 2
    BY <2>1 DEF PaperRecord
  <2>3. [paper[p] EXCEPT !.age = n] = [status |-> paper[p].status, age |-> n, vetted |-> paper[p].vetted]
    BY <2>1 DEF PaperRecord
  <2>4. paper' = [paper EXCEPT ![p] = [status |-> paper[p].status, age |-> n, vetted |-> paper[p].vetted]]
    BY <1>4, <2>3 DEF GrowsOld
  <2>5. [status |-> paper[p].status, age |-> n, vetted |-> paper[p].vetted] \in PaperRecord
    BY <2>1, <2>2 DEF PaperRecord
  <2>6. paper' \in [Papers -> PaperRecord]
    BY <2>4, <2>5, <1>t
  <2>7. KeepsVetting
    BY <2>4, <1>t, <1>v DEF KeepsVetting, ApprovedPapersAreVetted
  <2>8. UNCHANGED <<confirming, replacing, driver, approving, sweep>>
    BY <1>4 DEF GrowsOld
  <2> QED
    BY <2>6, <2>7, <2>8, <1>t, PapersMove
<1>5. ASSUME NEW d \in PaperDrivers, NEW taxi \in BOOLEAN, ApplyAsDriver(d, taxi)
      PROVE  PapersInv'
  <2> DEFINE r == [status |-> "pending", taxi |-> taxi, caps |-> driver[d].caps]
  <2>1. [driver[d] EXCEPT !.status = "pending", !.taxi = taxi] = r
    <3>1. [driver[d] EXCEPT !.status = "pending", !.taxi = taxi] = [[driver[d] EXCEPT !.status = "pending"] EXCEPT !.taxi = taxi]
      BY Zenon
    <3>2. [driver[d] EXCEPT !.status = "pending"] = [status |-> "pending", taxi |-> driver[d].taxi, caps |-> driver[d].caps]
      BY <1>t DEF DriverRecord
    <3>3. [[status |-> "pending", taxi |-> driver[d].taxi, caps |-> driver[d].caps] EXCEPT !.taxi = taxi] = r
      OBVIOUS
    <3> QED
      BY <3>1, <3>2, <3>3
  <2>2. driver' = [driver EXCEPT ![d] = r]
    BY <1>5, <2>1 DEF ApplyAsDriver
  <2>3. r \in DriverRecord /\ approving[d] \in ApprovalRecord
    BY <1>t DEF DriverRecord, DriverStatus
  <2>4. /\ driver[d].status # "approved"
        /\ UNCHANGED <<paper, confirming, replacing, approving, sweep>>
    BY <1>5 DEF ApplyAsDriver
  <2>5. r.status # "approved" /\ r.caps = {}
    BY <2>4, <1>k
  <2> HIDE DEF r
  <2> QED
    BY <2>2, <2>3, <2>4, <2>5, <1>t, <1>a, <1>k, DriverMoves
<1>6. ASSUME NEW d \in PaperDrivers, NEW taxi \in BOOLEAN, ApproveWrites(d, taxi)
      PROVE  PapersInv'
  <2> DEFINE r == [status |-> driver[d].status, taxi |-> taxi, caps |-> driver[d].caps]
             a == [step |-> "check", taxi |-> taxi]
  <2>1. [driver[d] EXCEPT !.taxi = taxi] = r
    BY <1>t DEF DriverRecord
  <2>2. driver' = [driver EXCEPT ![d] = r] /\ approving' = [approving EXCEPT ![d] = a]
    BY <1>6, <2>1 DEF ApproveWrites
  <2>3. r \in DriverRecord /\ a \in ApprovalRecord
    BY <1>t DEF DriverRecord, DriverStatus, ApprovalRecord
  <2>4. UNCHANGED <<paper, confirming, replacing, sweep>>
    BY <1>6 DEF ApproveWrites
  <2>5. r.status = driver[d].status /\ r.caps = driver[d].caps /\ a.step # "commit"
    OBVIOUS
  <2> HIDE DEF r, a
  <2> QED
    BY <2>2, <2>3, <2>4, <2>5, <1>t, <1>k, DriverMoves
<1>7. ASSUME NEW d \in PaperDrivers, ApproveChecks(d) \/ ApproveFails(d)
      PROVE  PapersInv'
  <2>1. PICK s \in {"no", "commit"} :
            /\ approving' = [approving EXCEPT ![d].step = s]
            /\ s = "commit" => Eligible(d)
    BY <1>7 DEF ApproveChecks, ApproveFails
  <2> DEFINE a == [step |-> s, taxi |-> approving[d].taxi]
  <2>2. [approving[d] EXCEPT !.step = s] = a
    BY <1>t DEF ApprovalRecord
  <2>3. approving' = [approving EXCEPT ![d] = a]
    BY <2>1, <2>2
  <2>4. a \in ApprovalRecord /\ driver[d] \in DriverRecord
    BY <1>t DEF ApprovalRecord
  <2>5. a.step = "commit" => AllVetted(d)
    BY <2>1, EligibleIsVetted
  <2>6. UNCHANGED <<paper, confirming, replacing, driver, sweep>>
    BY <1>7 DEF ApproveChecks, ApproveFails
  <2> HIDE DEF a
  <2> QED
    BY <2>3, <2>4, <2>5, <2>6, <1>t, <1>s, <1>k, DriverMoves
<1>8. ASSUME NEW d \in PaperDrivers, ApproveCommits(d)
      PROVE  PapersInv'
  <2> DEFINE c == driver[d].caps \cup {"RIDE_DRIVER"}
                        \cup IF approving[d].taxi THEN {"TAXI_DRIVER"} ELSE {}
             r == [status |-> "approved", taxi |-> approving[d].taxi, caps |-> c]
             a == [step |-> "no", taxi |-> approving[d].taxi]
  <2>1. [approving[d] EXCEPT !.step = "no"] = a
    BY <1>t DEF ApprovalRecord
  <2>2. driver' = [driver EXCEPT ![d] = r] /\ approving' = [approving EXCEPT ![d] = a]
    BY <1>8, <2>1 DEF ApproveCommits
  <2>3. c \in SUBSET Capabilities
    BY <1>t DEF DriverRecord, Capabilities
  <2>4. r \in DriverRecord /\ a \in ApprovalRecord
    BY <2>3, <1>t DEF DriverRecord, DriverStatus, ApprovalRecord
  <2>5. AllVetted(d) /\ UNCHANGED <<paper, confirming, replacing, sweep>>
    BY <1>8, <1>k DEF ApproveCommits
  <2>6. r.status = "approved" /\ "RIDE_DRIVER" \in r.caps /\ a.step # "commit"
    OBVIOUS
  <2> HIDE DEF r, a
  <2> QED
    BY <2>2, <2>4, <2>5, <2>6, <1>t, DriverMoves
<1>9. ASSUME NEW d \in PaperDrivers, driver' = [driver EXCEPT ![d] = Suspended(d)],
             UNCHANGED <<paper, confirming, replacing, approving>>, sweep' \in SweepType
      PROVE  PapersInv'
  <2> DEFINE r == [status |-> "suspended", taxi |-> driver[d].taxi, caps |-> {}]
  <2>1. Suspended(d) = r
    <3>1. Suspended(d) = [[driver[d] EXCEPT !.status = "suspended"] EXCEPT !.caps = {}]
      BY Zenon DEF Suspended
    <3>2. [driver[d] EXCEPT !.status = "suspended"] = [status |-> "suspended", taxi |-> driver[d].taxi, caps |-> driver[d].caps]
      BY <1>t DEF DriverRecord
    <3>3. [[status |-> "suspended", taxi |-> driver[d].taxi, caps |-> driver[d].caps] EXCEPT !.caps = {}] = r
      BY SMTT(60)
    <3> QED
      BY <3>1, <3>2, <3>3
  <2>2. r \in DriverRecord /\ approving[d] \in ApprovalRecord
    BY <1>t DEF DriverRecord, DriverStatus
  <2>3. r.status # "approved" /\ r.caps = {}
    OBVIOUS
  <2> HIDE DEF r
  <2> QED
    BY <1>9, <2>1, <2>2, <2>3, <1>a, <1>k, DriverMoves
<1>10. ASSUME NEW d \in PaperDrivers, Suspend(d)
       PROVE  PapersInv'
  BY <1>9, <1>10, <1>t DEF Suspend
<1>11. ASSUME UNCHANGED <<paper, confirming, replacing, driver, approving>>, sweep' \in SweepType
       PROVE  PapersInv'
  <2>1. KeepsVetting
    BY <1>11, <1>v DEF KeepsVetting, ApprovedPapersAreVetted
  <2> QED
    BY <1>11, <2>1, <1>t, PapersMove
<1>12. ASSUME NEW d \in PaperDrivers, SweepChecks(d)
       PROVE  PapersInv'
  <2>1. sweep' \in SweepType
    BY <1>12, <1>t DEF SweepChecks
  <2> QED
    BY <1>11, <1>12, <2>1 DEF SweepChecks
<1>13. CASE SweepExpires
  <2>1. \A q \in Papers, s \in PaperStatus :
            [paper[q] EXCEPT !.status = s] = [status |-> s, age |-> paper[q].age, vetted |-> paper[q].vetted]
    BY <1>t DEF PaperRecord
  <2>2. /\ DOMAIN paper' = Papers /\ paper' = [q \in Papers |-> paper'[q]]
        /\ \A q \in Papers :
            \/ paper'[q] = paper[q]
            \/ paper'[q] = [status |-> "expired", age |-> paper[q].age, vetted |-> paper[q].vetted]
    BY <1>13, <2>1 DEF SweepExpires, PaperStatus, Current
  <2>3. \A q \in Papers : paper'[q] \in PaperRecord
    BY <2>2, <1>t DEF PaperRecord, PaperStatus, Current
  <2>4. KeepsVetting
    BY <2>2, <1>v DEF KeepsVetting, ApprovedPapersAreVetted
  <2>5. {OwnerOf[p] : p \in Lapsed} \subseteq PaperDrivers
    BY DEF Lapsed
  <2>6. sweep' \in SweepType
    BY <1>13, <2>5, <1>t DEF SweepExpires
  <2>7. UNCHANGED <<confirming, replacing, driver, approving>>
    BY <1>13 DEF SweepExpires
  <2> QED
    BY <2>2, <2>3, <2>4, <2>6, <2>7, <1>t, PapersMove
<1>14. CASE SweepSuspends
  <2>1. sweep.at \in PaperDrivers
    BY <1>14, <1>t DEF SweepSuspends
  <2>2. sweep' \in SweepType
    BY <1>14, <1>t DEF SweepSuspends
  <2>3. CASE driver' = driver
    BY <1>11, <1>14, <2>2, <2>3 DEF SweepSuspends
  <2>4. CASE driver' = [driver EXCEPT ![sweep.at] = Suspended(sweep.at)]
    BY <1>9, <1>14, <2>1, <2>2, <2>4 DEF SweepSuspends
  <2> QED
    BY <1>14, <2>3, <2>4 DEF SweepSuspends
<1>15. CASE SweepStops
  <2>1. sweep' \in SweepType
    BY <1>15 DEF SweepStops
  <2> QED
    BY <1>11, <1>15, <2>1 DEF SweepStops
<1>16. CASE UNCHANGED paperVars
  BY <1>11, <1>16, <1>t DEF paperVars
<1> QED
  BY <1>1, <1>2, <1>3, <1>4, <1>5, <1>6, <1>7, <1>8, <1>10, <1>12, <1>13, <1>14, <1>15, <1>16
     DEF PapersNext

LEMMA PapersInductive == PapersSpec => []PapersInv
<1>1. PapersInit => PapersInv
  <2> SUFFICES ASSUME PapersInit
               PROVE  PapersInv
    OBVIOUS
  <2>1. PapersTypeOK
    BY PapersAssumption DEF PapersInit, PapersTypeOK, Current
  <2> QED
    BY <2>1 DEF PapersInit, PapersInv, ApprovedWasVetted, ApprovedPapersAreVetted, CommitsAreVetted
<1> QED
  BY <1>1, PapersStep, PTL DEF PapersSpec

\* The state of papers and drivers is well typed.
THEOREM PapersTypeCorrect == PapersSpec => []PapersTypeOK
  BY PapersInductive, PTL DEF PapersInv

\* An approved driver had every required paper approved, and capabilities
\* follow the status, however uploads, reviews, approvals and the sweep
\* interleave (drivers.go, Approve and Suspend; documents.go, ExpireSweep).
THEOREM DriversWereVetted == PapersSpec => []ApprovedWasVetted
  BY PapersInductive, PTL DEF PapersInv
-----------------------------------------------------------------------------
(***************************************************************************)
(* Events.  Four parts: the numbers of rows; the rows that relays hold,    *)
(* which are ready, held once, and preceded by settled rows only; what the *)
(* topic got, which no earlier row can overtake; and the notices, which    *)
(* are about committed events and pushed by whoever inserted them.         *)
(***************************************************************************)
RowStates == {"none", "open", "gone", "ready", "backoff", "published"}
RowRecord == [state : RowStates, seq : 0 .. Cardinality(OutboxEvents)]
TickRecord == [todo : SUBSET OutboxEvents, sent : SUBSET OutboxEvents, failed : SUBSET OutboxEvents]
HandlingRecord == [event : OutboxEvents \cup {NoOutboxEvent}, todo : SUBSET Users,
                   push : Users \cup {NobodyPushed}]

Numbered == {p \in OutboxEvents : rows[p].seq > 0}
LockedEvent(e) == AggregateOf[e] \in LockedWriters
Taken(w) == tick[w].todo \cup tick[w].sent \cup tick[w].failed

\* No earlier row of the aggregate is still to be published.
PastSettled(e) ==
    \A q \in Siblings(e) : rows[q].seq < rows[e].seq => rows[q].state \in {"none", "gone", "published"}

RowsOK ==
    /\ \A e \in OutboxEvents :
        /\ rows[e].seq > 0 <=> rows[e].state # "none"
        /\ rows[e].seq <= Cardinality(Numbered)
    /\ \A e, f \in OutboxEvents : e # f /\ rows[e].seq > 0 => rows[e].seq # rows[f].seq
    /\ \A e \in OutboxEvents : LockedEvent(e) /\ rows[e].state = "open" =>
        \A f \in Siblings(e) : rows[f].seq < rows[e].seq

TicksOK ==
    /\ \A w \in Relays : \A e \in Taken(w) :
        /\ rows[e].state = "ready"
        /\ LockedEvent(e) => PastSettled(e)
    /\ \A v, w \in Relays : v # w => Taken(v) \cap Taken(w) = {}

WasSent(e) == rows[e].state = "published" \/ \E w \in Relays : e \in tick[w].sent

PublishedOK ==
    \A a \in LockedWriters :
        /\ published[a] # NoOutboxEvent =>
               /\ AggregateOf[published[a]] = a
               /\ Committed(published[a]) /\ PastSettled(published[a])
        /\ \A e \in OutboxEvents : AggregateOf[e] = a /\ WasSent(e) =>
               published[a] # NoOutboxEvent /\ rows[e].seq <= rows[published[a]].seq

NoticesOK ==
    /\ \A e \in queued : Committed(e)
    /\ \A c \in Consumers :
        /\ handling[c].event # NoOutboxEvent => Committed(handling[c].event)
        /\ handling[c].event = NoOutboxEvent => handling[c].todo = {} /\ handling[c].push = NobodyPushed
        /\ handling[c].push # NobodyPushed =>
               /\ <<handling[c].event, handling[c].push>> \in inbox
               /\ pushes[<<handling[c].event, handling[c].push>>] = 0
    /\ \A c, d \in Consumers : c # d /\ handling[c].push # NobodyPushed =>
        handling[c].event # handling[d].event \/ handling[c].push # handling[d].push

EventsInv == EventsTypeOK /\ RowsOK /\ TicksOK /\ PublishedOK /\ NoticesOK /\ ToldOncePerEvent

\* What a step may do to the rows: a committed row stays committed and keeps its
\* number, and nothing that is still to be published gets in front of it.
RowsGoOn ==
    \A e \in OutboxEvents : Committed(e) =>
        /\ Committed(e)' /\ rows'[e].seq = rows[e].seq
        /\ LockedEvent(e) /\ PastSettled(e) => PastSettled(e)'

\* A row moves to another state, perhaps with a number.
LEMMA RowMoves ==
    ASSUME EventsTypeOK, NEW e \in OutboxEvents, NEW s \in RowStates,
           NEW n \in 0 .. Cardinality(OutboxEvents),
           \/ rows' = [rows EXCEPT ![e] = [state |-> s, seq |-> n]]
           \/ rows' = [rows EXCEPT ![e].state = s] /\ n = rows[e].seq
    PROVE  /\ rows' \in [OutboxEvents -> RowRecord]
           /\ rows'[e] = [state |-> s, seq |-> n]
           /\ \A f \in OutboxEvents \ {e} : rows'[f] = rows[f]
<1>1. rows \in [OutboxEvents -> RowRecord]
  BY DEF EventsTypeOK, RowRecord, RowStates
<1>2. [rows[e] EXCEPT !.state = s] = [state |-> s, seq |-> rows[e].seq]
  BY <1>1 DEF RowRecord
<1>3. [rows EXCEPT ![e].state = s] = [rows EXCEPT ![e] = [rows[e] EXCEPT !.state = s]]
  OBVIOUS
<1>4. rows' = [rows EXCEPT ![e] = [state |-> s, seq |-> n]]
  BY <1>2, <1>3
<1>5. [state |-> s, seq |-> n] \in RowRecord
  BY DEF RowRecord
<1> QED
  BY <1>1, <1>4, <1>5

\* Numbers are natural, and a row's aggregate is one.
LEMMA RowFacts ==
    ASSUME EventsTypeOK
    PROVE  /\ rows \in [OutboxEvents -> RowRecord]
           /\ \A e \in OutboxEvents : rows[e].seq \in Nat /\ rows[e].state \in RowStates
           /\ Cardinality(OutboxEvents) \in Nat
           /\ IsFiniteSet(Numbered) /\ Cardinality(Numbered) \in Nat
<1>1. rows \in [OutboxEvents -> RowRecord]
  BY DEF EventsTypeOK, RowRecord, RowStates
<1>2. Cardinality(OutboxEvents) \in Nat
  BY EventsAssumption, FS_CardinalityType
<1>3. IsFiniteSet(Numbered) /\ Cardinality(Numbered) \in Nat
  BY EventsAssumption, FS_Subset, FS_CardinalityType DEF Numbered
<1> QED
  BY <1>1, <1>2, <1>3 DEF RowRecord

\* A step of the rows alone that keeps the numbers.
LEMMA NumbersStay ==
    ASSUME EventsTypeOK, RowsOK, rows' \in [OutboxEvents -> RowRecord],
           \A e \in OutboxEvents :
               /\ rows'[e].seq = rows[e].seq
               /\ rows'[e].state = "none" <=> rows[e].state = "none"
               /\ rows'[e].state = "open" => rows[e].state = "open"
    PROVE  RowsOK'
<1>1. Numbered' = Numbered
  BY DEF Numbered
<1> QED
  BY <1>1 DEF RowsOK, LockedEvent, Siblings

\* The parts that depend on the rows are kept by a step of the rows that goes on.
LEMMA NoticesStay ==
    ASSUME EventsInv, RowsGoOn, UNCHANGED <<queued, handling, inbox, pushes>>
    PROVE  NoticesOK' /\ ToldOncePerEvent'
<1>1. \A e \in OutboxEvents : Committed(e) => Committed(e)'
  BY DEF RowsGoOn
<1>2. queued \subseteq OutboxEvents
  BY DEF EventsInv, EventsTypeOK
<1>3. \A c \in Consumers : handling[c].event \in OutboxEvents \cup {NoOutboxEvent}
  BY DEF EventsInv, EventsTypeOK
<1>4. NoticesOK'
  BY <1>1, <1>2, <1>3 DEF EventsInv, NoticesOK
<1>5. ToldOncePerEvent'
  BY <1>1 DEF EventsInv, ToldOncePerEvent
<1> QED
  BY <1>4, <1>5

\* A step of one row, by no relay, that goes on and publishes nothing.
LEMMA RelaysStay ==
    ASSUME EventsInv, RowsGoOn, UNCHANGED <<tick, published>>,
           \A e \in OutboxEvents :
               /\ rows[e].state = "ready" => rows'[e].state = "ready"
               /\ rows'[e].state = "published" => rows[e].state = "published"
    PROVE  TicksOK' /\ PublishedOK'
<1>1. \A w \in Relays : Taken(w)' = Taken(w) /\ Taken(w) \subseteq OutboxEvents
  BY DEF Taken, EventsInv, EventsTypeOK
<1>2. \A e \in OutboxEvents : LockedEvent(e)' = LockedEvent(e)
  BY DEF LockedEvent
<1>3. TicksOK'
  BY <1>1, <1>2 DEF EventsInv, TicksOK, RowsGoOn, Committed
<1>4. \A a \in LockedWriters : published[a] \in OutboxEvents \cup {NoOutboxEvent}
  BY EventsAssumption DEF EventsInv, EventsTypeOK
<1>5. \A e \in OutboxEvents : WasSent(e)' => WasSent(e) /\ Committed(e)
  BY DEF WasSent, EventsInv, TicksOK, Taken, Committed
<1>6. \A e \in OutboxEvents : Committed(e) => rows'[e].seq = rows[e].seq /\ Committed(e)'
  BY DEF RowsGoOn
<1>7. \A a \in LockedWriters :
        published[a] # NoOutboxEvent =>
            AggregateOf[published[a]] = a /\ Committed(published[a])' /\ PastSettled(published[a])'
  BY <1>4 DEF EventsInv, PublishedOK, RowsGoOn, LockedEvent
<1>8. \A a \in LockedWriters, e \in OutboxEvents : AggregateOf[e] = a /\ WasSent(e)' =>
            published[a] # NoOutboxEvent /\ rows'[e].seq <= rows'[published[a]].seq
  BY <1>4, <1>5, <1>6 DEF EventsInv, PublishedOK
<1>9. PublishedOK'
  BY <1>7, <1>8 DEF PublishedOK
<1> QED
  BY <1>3, <1>9
\* The insert takes the next number, behind every row there is.
LEMMA EmitStep ==
    ASSUME EventsInv, NEW x \in OutboxEvents, Emit(x)
    PROVE  EventsInv'
<1> DEFINE n == 1 + Cardinality(Numbered)
<1>t. EventsTypeOK /\ RowsOK
  BY DEF EventsInv
<1>r. /\ rows \in [OutboxEvents -> RowRecord]
      /\ \A e \in OutboxEvents : rows[e].seq \in Nat /\ rows[e].state \in RowStates
      /\ Cardinality(OutboxEvents) \in Nat
      /\ IsFiniteSet(Numbered) /\ Cardinality(Numbered) \in Nat
  BY <1>t, RowFacts
<1>1. rows[x].state = "none" /\ x \notin Numbered
  BY <1>r, <1>t DEF Emit, RowsOK, Numbered
<1>2. /\ IsFiniteSet(Numbered \cup {x})
      /\ Cardinality(Numbered \cup {x}) = Cardinality(Numbered) + 1
  BY <1>1, <1>r, FS_AddElement
<1>3. Numbered \cup {x} \subseteq OutboxEvents
  BY DEF Numbered
<1>4. Cardinality(Numbered \cup {x}) <= Cardinality(OutboxEvents)
  BY <1>3, EventsAssumption, FS_Subset
<1>5. n \in 0 .. Cardinality(OutboxEvents)
  BY <1>2, <1>4, <1>r
<1>6. rows' = [rows EXCEPT ![x] = [state |-> "open", seq |-> n]]
  BY DEF Emit, Numbered
<1>7. /\ rows' \in [OutboxEvents -> RowRecord]
      /\ rows'[x] = [state |-> "open", seq |-> n]
      /\ \A f \in OutboxEvents \ {x} : rows'[f] = rows[f]
  <2>1. "open" \in RowStates
    BY DEF RowStates
  <2> HIDE DEF n
  <2> QED
    BY <1>5, <1>6, <1>t, <2>1, RowMoves
<1>8. \A f \in OutboxEvents : rows[f].seq < n
  BY <1>r, <1>t DEF RowsOK
<1>9. Numbered' = Numbered \cup {x}
  BY <1>7, <1>r DEF Numbered
<1>10. Cardinality(Numbered') = n
  BY <1>2, <1>9, <1>r
<1>11. LockedEvent(x) => \A p \in Siblings(x) : rows[p].state # "open"
  BY DEF Emit, LockedEvent
<1> HIDE DEF n
<1>n. n \in Nat /\ n > 0
  BY <1>r DEF n
<1>12. RowsOK'
  <2>1. \A e \in OutboxEvents :
          /\ rows'[e].seq > 0 <=> rows'[e].state # "none"
          /\ rows'[e].seq <= n
    BY <1>7, <1>8, <1>n, <1>r, <1>t DEF RowsOK
  <2>2. \A e, f \in OutboxEvents : e # f /\ rows'[e].seq > 0 => rows'[e].seq # rows'[f].seq
    BY <1>7, <1>8, <1>n, <1>r, <1>t DEF RowsOK
  <2>3. ASSUME NEW e \in OutboxEvents, LockedEvent(e), rows'[e].state = "open", NEW f \in Siblings(e)
        PROVE  rows'[f].seq < rows'[e].seq
    <3>1. f \in OutboxEvents /\ f # e /\ e \in Siblings(f) /\ LockedEvent(f)
      BY <2>3 DEF Siblings, LockedEvent
    <3>2. CASE e = x
      BY <1>7, <1>8, <3>1, <3>2
    <3>3. CASE e # x
      <4>1. rows[e].state = "open" /\ rows'[e] = rows[e]
        BY <1>7, <2>3, <3>3
      <4>2. f # x
        BY <1>11, <2>3, <3>1, <4>1
      <4> QED
        BY <1>7, <1>t, <2>3, <3>1, <4>1, <4>2 DEF RowsOK
    <3> QED
      BY <3>2, <3>3
  <2> QED
    BY <1>10, <2>1, <2>2, <2>3 DEF RowsOK, LockedEvent, Siblings
<1>13. RowsGoOn
  <2> SUFFICES ASSUME NEW e \in OutboxEvents, Committed(e)
               PROVE  /\ Committed(e)' /\ rows'[e].seq = rows[e].seq
                      /\ LockedEvent(e) /\ PastSettled(e) => PastSettled(e)'
    BY DEF RowsGoOn
  <2>1. e # x /\ rows'[e] = rows[e]
    BY <1>1, <1>7 DEF Committed
  <2>2. PastSettled(e) => PastSettled(e)'
    BY <1>7, <1>8, <1>n, <1>r, <2>1 DEF PastSettled, Siblings
  <2> QED
    BY <2>1, <2>2 DEF Committed
<1>14. UNCHANGED <<tick, published, queued, handling, inbox, pushes, faults>>
  BY DEF Emit
<1>15. \A e \in OutboxEvents :
          /\ rows[e].state = "ready" => rows'[e].state = "ready"
          /\ rows'[e].state = "published" => rows[e].state = "published"
  BY <1>1, <1>7
<1>16. EventsTypeOK'
  BY <1>7, <1>14, <1>t DEF EventsTypeOK, RowRecord, RowStates
<1> QED
  BY <1>12, <1>13, <1>14, <1>15, <1>16, RelaysStay, NoticesStay DEF EventsInv

\* The transaction ends, or a backoff: one row moves on.
LEMMA RowStep ==
    ASSUME EventsInv, NEW x \in OutboxEvents,
           BackoffEnds(x) \/ \E state \in {"ready", "gone"} : EmitEnds(x, state)
    PROVE  EventsInv'
<1>t. EventsTypeOK /\ RowsOK
  BY DEF EventsInv
<1>r. /\ rows \in [OutboxEvents -> RowRecord]
      /\ \A e \in OutboxEvents : rows[e].seq \in Nat /\ rows[e].state \in RowStates
  BY <1>t, RowFacts
<1>1. PICK s \in {"ready", "gone"} :
          /\ rows' = [rows EXCEPT ![x].state = s]
          /\ rows[x].state = "open" \/ (rows[x].state = "backoff" /\ s = "ready")
  BY DEF BackoffEnds, EmitEnds
<1>2. /\ rows' \in [OutboxEvents -> RowRecord]
      /\ rows'[x] = [state |-> s, seq |-> rows[x].seq]
      /\ \A f \in OutboxEvents \ {x} : rows'[f] = rows[f]
  <2>1. s \in RowStates /\ rows[x].seq \in 0 .. Cardinality(OutboxEvents)
    BY <1>r DEF RowStates, RowRecord
  <2> QED
    BY <1>1, <1>t, <2>1, RowMoves
<1>3. UNCHANGED <<tick, published, queued, handling, inbox, pushes, faults>>
  BY DEF BackoffEnds, EmitEnds
<1>4. RowsOK'
  BY ZenonT(90), <1>1, <1>2, <1>t, NumbersStay
<1>5. RowsGoOn
  <2> SUFFICES ASSUME NEW e \in OutboxEvents, Committed(e)
               PROVE  /\ Committed(e)' /\ rows'[e].seq = rows[e].seq
                      /\ LockedEvent(e) /\ PastSettled(e) => PastSettled(e)'
    BY DEF RowsGoOn
  <2>1. Committed(e)' /\ rows'[e].seq = rows[e].seq
    BY ZenonT(90), <1>1, <1>2 DEF Committed
  <2>2. ASSUME LockedEvent(e), PastSettled(e), NEW q \in Siblings(e), rows'[q].seq < rows'[e].seq
        PROVE  rows'[q].state \in {"none", "gone", "published"}
    <3>1. /\ q \in OutboxEvents /\ e \in Siblings(q) /\ LockedEvent(q)
          /\ rows'[q].seq = rows[q].seq /\ rows[q].seq < rows[e].seq
      BY <1>2, <2>1, <2>2 DEF Siblings, LockedEvent
    <3>2. rows[q].state \in {"none", "gone", "published"}
      BY <2>2, <3>1 DEF PastSettled
    <3>3. q # x
      BY <1>1, <3>2
    <3> QED
      BY <1>2, <3>1, <3>2, <3>3
  <2> QED
    BY <2>1, <2>2 DEF PastSettled, Siblings
<1>6. \A e \in OutboxEvents :
          /\ rows[e].state = "ready" => rows'[e].state = "ready"
          /\ rows'[e].state = "published" => rows[e].state = "published"
  BY ZenonT(90), <1>1, <1>2
<1>7. EventsTypeOK'
  BY <1>2, <1>3, <1>t DEF EventsTypeOK, RowRecord, RowStates
<1> QED
  BY <1>3, <1>4, <1>5, <1>6, <1>7, RelaysStay, NoticesStay DEF EventsInv

\* What a relay holds changes as a whole.
LEMMA TickMoves ==
    ASSUME EventsTypeOK, NEW w \in Relays, NEW r \in TickRecord,
           tick' = [tick EXCEPT ![w] = r]
    PROVE  /\ tick' \in [Relays -> TickRecord]
           /\ tick'[w] = r /\ \A v \in Relays \ {w} : tick'[v] = tick[v]
<1>1. tick \in [Relays -> TickRecord]
  BY DEF EventsTypeOK, TickRecord
<1> QED
  BY <1>1

\* The heads that nobody holds are ready, and nothing before them is to be published.
LEMMA RelayTakesStep ==
    ASSUME EventsInv, NEW w \in Relays, RelayTakes(w)
    PROVE  EventsInv'
<1> DEFINE h == {e \in OutboxEvents : IsHead(e)} \ Held
           r == [todo |-> h, sent |-> {}, failed |-> {}]
<1>t. EventsTypeOK /\ RowsOK /\ TicksOK
  BY DEF EventsInv
<1>r. \A e \in OutboxEvents : rows[e].seq \in Nat /\ rows[e].state \in RowStates
  BY <1>t, RowFacts
<1>1. /\ tick[w] = NoTick /\ tick' = [tick EXCEPT ![w].todo = h]
      /\ UNCHANGED <<rows, published, queued, handling, inbox, pushes, faults>>
  BY DEF RelayTakes
<1>2. [tick[w] EXCEPT !.todo = h] = r
  <2> HIDE DEF h
  <2> QED
    BY <1>1 DEF NoTick
<1>3. tick' = [tick EXCEPT ![w] = r]
  BY <1>1, <1>2
<1>4. r \in TickRecord
  BY DEF TickRecord
<1>5. /\ tick' \in [Relays -> TickRecord]
      /\ tick'[w] = r /\ \A v \in Relays \ {w} : tick'[v] = tick[v]
  <2> HIDE DEF r
  <2> QED
    BY <1>3, <1>4, <1>t, TickMoves
<1>6. /\ Taken(w)' = h
      /\ \A v \in Relays \ {w} : Taken(v)' = Taken(v) /\ Taken(v) \cap h = {}
  BY <1>5 DEF Taken, Held
<1>7. \A e \in h : rows[e].state = "ready" /\ (LockedEvent(e) => PastSettled(e))
  <2> SUFFICES ASSUME NEW e \in h
               PROVE  rows[e].state = "ready" /\ (LockedEvent(e) => PastSettled(e))
    OBVIOUS
  <2>1. e \in OutboxEvents /\ IsHead(e)
    OBVIOUS
  <2>2. ASSUME LockedEvent(e), NEW q \in Siblings(e), rows[q].seq < rows[e].seq
        PROVE  rows[q].state \in {"none", "gone", "published"}
    <3>1. q \in OutboxEvents /\ e \in Siblings(q) /\ LockedEvent(q)
      BY <2>1, <2>2 DEF Siblings, LockedEvent
    <3>2. ~Unpublished(q)
      BY <1>r, <2>1, <2>2, <3>1 DEF IsHead
    <3>3. rows[q].state # "open"
      BY <1>r, <1>t, <2>1, <2>2, <3>1 DEF RowsOK
    <3> QED
      BY <1>r, <3>1, <3>2, <3>3 DEF Unpublished, RowStates
  <2> QED
    BY <2>1, <2>2 DEF IsHead, PastSettled
<1>8. TicksOK'
  <2> HIDE DEF h, r
  <2>1. \A e \in OutboxEvents : PastSettled(e)' = PastSettled(e) /\ LockedEvent(e)' = LockedEvent(e)
    BY <1>1 DEF PastSettled, Siblings, LockedEvent
  <2>2. \A v \in Relays : Taken(v) \subseteq OutboxEvents
    BY <1>t DEF Taken, EventsTypeOK
  <2>3. h \subseteq OutboxEvents
    BY DEF h
  <2>4. \A v \in Relays : \A e \in Taken(v)' :
            rows'[e].state = "ready" /\ (LockedEvent(e)' => PastSettled(e)')
    BY <1>1, <1>6, <1>7, <1>t, <2>1, <2>2, <2>3 DEF TicksOK
  <2>5. \A v, u \in Relays : v # u => Taken(v)' \cap Taken(u)' = {}
    BY <1>6, <1>t DEF TicksOK
  <2> QED
    BY <2>4, <2>5 DEF TicksOK
<1>9. \A e \in OutboxEvents : WasSent(e)' => WasSent(e)
  BY <1>1, <1>5 DEF WasSent
<1>10. PublishedOK'
  BY <1>1, <1>9 DEF EventsInv, PublishedOK, PastSettled, Siblings, Committed
<1>11. EventsTypeOK'
  BY <1>1, <1>5, <1>t DEF EventsTypeOK, TickRecord
<1> QED
  BY <1>1, <1>8, <1>10, <1>11 DEF EventsInv, RowsOK, NoticesOK, ToldOncePerEvent, LockedEvent, Siblings, Numbered, Committed
\* Whatever the topic got of an aggregate comes before a ready event of it.
LEMMA SentIsBefore ==
    ASSUME EventsInv, NEW e \in OutboxEvents, LockedEvent(e), rows[e].state = "ready",
           NEW f \in OutboxEvents, AggregateOf[f] = AggregateOf[e], WasSent(f)
    PROVE  rows[f].seq <= rows[e].seq
<1> DEFINE a == AggregateOf[e]
           p == published[a]
<1>r. \A x \in OutboxEvents : rows[x].seq \in Nat
  BY RowFacts DEF EventsInv
<1>1. a \in LockedWriters /\ a \in Aggregates
  BY EventsAssumption DEF LockedEvent
<1>2. p \in OutboxEvents \cup {NoOutboxEvent}
  BY <1>1 DEF EventsInv, EventsTypeOK
<1>3. p # NoOutboxEvent /\ rows[f].seq <= rows[p].seq
  BY <1>1 DEF EventsInv, PublishedOK
<1>4. p \in OutboxEvents /\ AggregateOf[p] = a /\ PastSettled(p)
  BY <1>1, <1>2, <1>3 DEF EventsInv, PublishedOK
<1> HIDE DEF p
<1>5. CASE e = p
  BY <1>3, <1>5
<1>6. CASE e # p
  <2>1. e \in Siblings(p)
    BY <1>4, <1>6 DEF Siblings
  <2>2. ~(rows[e].seq < rows[p].seq)
    BY <1>4, <2>1 DEF PastSettled
  <2> QED
    BY <1>3, <1>4, <1>r, <2>2
<1> QED
  BY <1>5, <1>6

\* An event that a relay holds follows what the topic got last.
LEMMA HeldFollows ==
    ASSUME EventsInv, NEW w \in Relays, NEW e \in Taken(w), LockedEvent(e),
           published[AggregateOf[e]] # e
    PROVE  FollowsIn(e, published[AggregateOf[e]])
<1> DEFINE a == AggregateOf[e]
           p == published[a]
<1>r. /\ rows \in [OutboxEvents -> RowRecord]
      /\ \A x \in OutboxEvents : rows[x].seq \in Nat
  BY RowFacts DEF EventsInv
<1>0. e \in OutboxEvents
  BY DEF Taken, EventsInv, EventsTypeOK
<1>1. a \in LockedWriters /\ a \in Aggregates
  BY EventsAssumption, <1>0 DEF LockedEvent
<1>2. p \in OutboxEvents \cup {NoOutboxEvent}
  BY <1>1 DEF EventsInv, EventsTypeOK
<1>3. rows[e].state = "ready" /\ PastSettled(e)
  BY DEF EventsInv, TicksOK
<1>4. ASSUME p # NoOutboxEvent
      PROVE  rows[p].seq < rows[e].seq
  <2>1. p \in OutboxEvents /\ AggregateOf[p] = a /\ PastSettled(p)
    BY <1>1, <1>2, <1>4 DEF EventsInv, PublishedOK
  <2>2. e \in Siblings(p)
    BY <1>0, <2>1 DEF Siblings
  <2>3. ~(rows[e].seq < rows[p].seq)
    BY <1>3, <2>1, <2>2 DEF PastSettled
  <2>4. rows[e].seq > 0
    BY <1>0, <1>3, <1>r DEF EventsInv, RowsOK
  <2>5. rows[e].seq # rows[p].seq
    BY <1>0, <2>1, <2>4 DEF EventsInv, RowsOK
  <2> QED
    BY <1>0, <1>r, <2>1, <2>3, <2>5
<1>5. ASSUME NEW q \in Siblings(e), rows[q].seq < rows[e].seq, Committed(q)
      PROVE  p # NoOutboxEvent /\ rows[q].seq <= rows[p].seq
  <2>1. q \in OutboxEvents /\ AggregateOf[q] = a
    BY <1>5 DEF Siblings
  <2>2. rows[q].state = "published"
    BY <1>3, <1>5 DEF PastSettled, Committed
  <2>3. WasSent(q)
    BY <2>2 DEF WasSent
  <2> QED
    BY <1>1, <2>1, <2>3 DEF EventsInv, PublishedOK
<1> QED
  BY <1>4, <1>5 DEF FollowsIn

\* A publication, or one whose answer is an error: what the relay holds stays.
LEMMA PublishMoves ==
    ASSUME EventsInv, NEW w \in Relays, NEW e \in OutboxEvents, Publish(w, e) \/ PublishFails(w, e)
    PROVE  /\ e \in Taken(w)
           /\ tick' \in [Relays -> TickRecord]
           /\ \A v \in Relays : Taken(v)' = Taken(v)
           /\ \A v \in Relays \ {w} : tick'[v] = tick[v]
           /\ \/ tick'[w].sent = tick[w].sent \cup {e} /\ published' = [published EXCEPT ![AggregateOf[e]] = e]
              \/ tick'[w].sent = tick[w].sent
           /\ \/ UNCHANGED <<published, queued>>
              \/ published' = [published EXCEPT ![AggregateOf[e]] = e] /\ queued' = queued \cup {e}
           /\ UNCHANGED <<rows, handling, inbox, pushes>> /\ faults' \in 0 .. MaxFaults
<1>t. tick \in [Relays -> TickRecord] /\ tick[w] \in TickRecord /\ faults \in 0 .. MaxFaults
  BY DEF EventsInv, EventsTypeOK, TickRecord
<1>0. e \in tick[w].todo
  BY DEF Publish, PublishFails, NextOf
<1>1. CASE Publish(w, e)
  <2> DEFINE a == tick[w].todo \ {e}
             b == tick[w].sent \cup {e}
             r == [todo |-> a, sent |-> b, failed |-> tick[w].failed]
  <2>1. [tick[w] EXCEPT !.todo = a, !.sent = b] = r
    <3>1. [tick[w] EXCEPT !.todo = a, !.sent = b] = [[tick[w] EXCEPT !.todo = a] EXCEPT !.sent = b]
      BY Zenon
    <3> HIDE DEF a, b
    <3>2. [tick[w] EXCEPT !.todo = a] = [todo |-> a, sent |-> tick[w].sent, failed |-> tick[w].failed]
      BY <1>t DEF TickRecord
    <3>3. [[todo |-> a, sent |-> tick[w].sent, failed |-> tick[w].failed] EXCEPT !.sent = b] = r
      OBVIOUS
    <3> QED
      BY <3>1, <3>2, <3>3
  <2>2. tick' = [tick EXCEPT ![w] = r]
    BY <1>1, <2>1 DEF Publish
  <2>3. r \in TickRecord
    BY <1>t DEF TickRecord
  <2>4. /\ tick' \in [Relays -> TickRecord]
        /\ tick'[w] = r /\ \A v \in Relays \ {w} : tick'[v] = tick[v]
    <3> HIDE DEF r
    <3> QED
      BY <2>2, <2>3, TickMoves DEF EventsInv
  <2>5. \A v \in Relays : Taken(v)' = Taken(v)
    BY <1>0, <2>4 DEF Taken
  <2>6. /\ published' = [published EXCEPT ![AggregateOf[e]] = e] /\ queued' = queued \cup {e}
        /\ UNCHANGED <<rows, handling, inbox, pushes, faults>>
    BY <1>1 DEF Publish
  <2> QED
    BY <1>0, <1>t, <2>4, <2>5, <2>6 DEF Taken
<1>2. CASE PublishFails(w, e)
  <2> DEFINE a == tick[w].todo \ {e}
             b == tick[w].failed \cup {e}
             r == [todo |-> a, sent |-> tick[w].sent, failed |-> b]
  <2>1. [tick[w] EXCEPT !.todo = a, !.failed = b] = r
    <3>1. [tick[w] EXCEPT !.todo = a, !.failed = b] = [[tick[w] EXCEPT !.todo = a] EXCEPT !.failed = b]
      BY Zenon
    <3> HIDE DEF a, b
    <3>2. [tick[w] EXCEPT !.todo = a] = [todo |-> a, sent |-> tick[w].sent, failed |-> tick[w].failed]
      BY <1>t DEF TickRecord
    <3>3. [[todo |-> a, sent |-> tick[w].sent, failed |-> tick[w].failed] EXCEPT !.failed = b] = r
      OBVIOUS
    <3> QED
      BY <3>1, <3>2, <3>3
  <2>2. tick' = [tick EXCEPT ![w] = r]
    BY <1>2, <2>1 DEF PublishFails
  <2>3. r \in TickRecord
    BY <1>t DEF TickRecord
  <2>4. /\ tick' \in [Relays -> TickRecord]
        /\ tick'[w] = r /\ \A v \in Relays \ {w} : tick'[v] = tick[v]
    <3> HIDE DEF r
    <3> QED
      BY <2>2, <2>3, TickMoves DEF EventsInv
  <2>5. \A v \in Relays : Taken(v)' = Taken(v)
    BY <1>0, <2>4 DEF Taken
  <2>6. faults' \in 0 .. MaxFaults
    BY <1>2, <1>t, EventsAssumption DEF PublishFails, Fault
  <2>7. /\ \/ UNCHANGED <<published, queued>>
           \/ published' = [published EXCEPT ![AggregateOf[e]] = e] /\ queued' = queued \cup {e}
        /\ UNCHANGED <<rows, handling, inbox, pushes>>
    BY <1>2 DEF PublishFails
  <2> QED
    BY <1>0, <2>4, <2>5, <2>6, <2>7 DEF Taken
<1> QED
  BY <1>1, <1>2

LEMMA PublishStep ==
    ASSUME EventsInv, NEW w \in Relays, NEW e \in OutboxEvents, Publish(w, e) \/ PublishFails(w, e)
    PROVE  EventsInv'
<1>t. EventsTypeOK /\ RowsOK /\ TicksOK
  BY DEF EventsInv
<1>0. /\ e \in Taken(w)
      /\ tick' \in [Relays -> TickRecord]
      /\ \A v \in Relays : Taken(v)' = Taken(v)
      /\ \A v \in Relays \ {w} : tick'[v] = tick[v]
      /\ \/ tick'[w].sent = tick[w].sent \cup {e} /\ published' = [published EXCEPT ![AggregateOf[e]] = e]
         \/ tick'[w].sent = tick[w].sent
      /\ \/ UNCHANGED <<published, queued>>
         \/ published' = [published EXCEPT ![AggregateOf[e]] = e] /\ queued' = queued \cup {e}
      /\ UNCHANGED <<rows, handling, inbox, pushes>> /\ faults' \in 0 .. MaxFaults
  BY PublishMoves
<1>r. \A x \in OutboxEvents : rows[x].seq \in Nat
  BY <1>t, RowFacts
<1>1. rows[e].state = "ready" /\ (LockedEvent(e) => PastSettled(e)) /\ AggregateOf[e] \in Aggregates
  BY <1>0, <1>t, EventsAssumption DEF TicksOK
<1>2. \A x \in OutboxEvents :
        /\ PastSettled(x)' = PastSettled(x) /\ LockedEvent(x)' = LockedEvent(x)
        /\ Committed(x)' = Committed(x)
  BY <1>0 DEF PastSettled, Siblings, LockedEvent, Committed
<1>3. \A v \in Relays : Taken(v) \subseteq OutboxEvents
  BY <1>t DEF Taken, EventsTypeOK
<1>4. TicksOK'
  BY <1>0, <1>2, <1>3, <1>t DEF TicksOK
<1>5. EventsTypeOK'
  BY <1>0, <1>1, <1>t DEF EventsTypeOK, TickRecord
<1>6. published \in [Aggregates -> OutboxEvents \cup {NoOutboxEvent}]
  BY <1>t DEF EventsTypeOK
<1>7. PublishedOK'
  <2> SUFFICES ASSUME NEW a \in LockedWriters
               PROVE  /\ published'[a] # NoOutboxEvent =>
                          AggregateOf[published'[a]] = a /\ Committed(published'[a]) /\ PastSettled(published'[a])
                      /\ \A f \in OutboxEvents : AggregateOf[f] = a /\ WasSent(f)' =>
                          published'[a] # NoOutboxEvent /\ rows[f].seq <= rows[published'[a]].seq
    <3>1. \A b \in LockedWriters : published'[b] \in OutboxEvents \cup {NoOutboxEvent}
      BY <1>5, EventsAssumption DEF EventsTypeOK
    <3>2. rows' = rows
      BY <1>0
    <3> QED
      BY <1>2, <3>1, <3>2 DEF PublishedOK
  <2>0. a \in Aggregates
    BY EventsAssumption
  <2>k. /\ published[a] # NoOutboxEvent =>
            AggregateOf[published[a]] = a /\ Committed(published[a]) /\ PastSettled(published[a])
        /\ \A f \in OutboxEvents : AggregateOf[f] = a /\ WasSent(f) =>
            published[a] # NoOutboxEvent /\ rows[f].seq <= rows[published[a]].seq
    BY DEF EventsInv, PublishedOK
  <2>1. CASE published'[a] = published[a] /\ (a = AggregateOf[e] => tick'[w].sent = tick[w].sent)
    <3>1. \A f \in OutboxEvents : AggregateOf[f] = a /\ WasSent(f)' => WasSent(f)
      BY <1>0, <2>1 DEF WasSent
    <3> QED
      BY <2>1, <2>k, <3>1
  <2>2. CASE a = AggregateOf[e] /\ published'[a] = e
    <3>1. LockedEvent(e)
      BY <2>2 DEF LockedEvent
    <3>2. \A f \in OutboxEvents : WasSent(f)' => f = e \/ WasSent(f)
      BY <1>0 DEF WasSent
    <3>3. \A f \in OutboxEvents : AggregateOf[f] = a /\ WasSent(f)' => rows[f].seq <= rows[e].seq
      BY <1>1, <1>r, <2>2, <3>1, <3>2, SentIsBefore
    <3> QED
      BY <1>1, <2>2, <3>1, <3>3, EventsAssumption DEF Committed
  <2>3. \/ published'[a] = published[a] /\ (a = AggregateOf[e] => tick'[w].sent = tick[w].sent)
        \/ a = AggregateOf[e] /\ published'[a] = e
    BY <1>0, <1>6, <2>0
  <2> QED
    BY <2>1, <2>2, <2>3
<1>8. NoticesOK'
  <2>1. \A x \in queued' : Committed(x)'
    BY <1>0, <1>1, <1>2, <1>t DEF EventsInv, NoticesOK, Committed, EventsTypeOK
  <2> QED
    BY <1>0, <2>1 DEF EventsInv, NoticesOK, Committed
<1> QED
  BY <1>0, <1>4, <1>5, <1>7, <1>8
     DEF EventsInv, RowsOK, ToldOncePerEvent, LockedEvent, Siblings, Numbered, Committed

\* A relay's commit settles what it sent and sets back what failed.
LEMMA RelayCommitsStep ==
    ASSUME EventsInv, NEW w \in Relays, RelayCommits(w)
    PROVE  EventsInv'
<1>t. EventsTypeOK /\ RowsOK /\ TicksOK
  BY DEF EventsInv
<1>r. /\ rows \in [OutboxEvents -> RowRecord]
      /\ \A x \in OutboxEvents : rows[x].seq \in Nat /\ rows[x].state \in RowStates
  BY <1>t, RowFacts
<1>0. NoTick \in TickRecord /\ \A v \in Relays : Taken(v) \subseteq OutboxEvents
  BY <1>t DEF NoTick, TickRecord, Taken, EventsTypeOK
<1>1. /\ tick' \in [Relays -> TickRecord]
      /\ tick'[w] = NoTick /\ \A v \in Relays \ {w} : tick'[v] = tick[v]
  BY <1>0, <1>t, TickMoves DEF RelayCommits
<1>2. UNCHANGED <<published, queued, handling, inbox, pushes, faults>>
  BY DEF RelayCommits
<1>3. \A x \in OutboxEvents, s \in RowStates : [rows[x] EXCEPT !.state = s] = [state |-> s, seq |-> rows[x].seq]
  BY <1>r DEF RowRecord
<1>4. /\ rows' = [x \in OutboxEvents |-> rows'[x]]
      /\ \A x \in OutboxEvents :
          IF x \in tick[w].sent THEN rows'[x] = [state |-> "published", seq |-> rows[x].seq]
          ELSE IF x \in tick[w].failed THEN rows'[x] = [state |-> "backoff", seq |-> rows[x].seq]
          ELSE rows'[x] = rows[x]
  BY <1>3 DEF RelayCommits, RowStates
<1>5. \A x \in OutboxEvents :
        /\ rows'[x] \in RowRecord /\ rows'[x].seq = rows[x].seq
        /\ rows'[x].state # rows[x].state =>
             x \in Taken(w) /\ rows[x].state = "ready" /\ rows'[x].state \in {"published", "backoff"}
        /\ rows'[x].state = "published" => rows[x].state = "published" \/ x \in tick[w].sent
  <2> SUFFICES ASSUME NEW x \in OutboxEvents
               PROVE  /\ rows'[x] \in RowRecord /\ rows'[x].seq = rows[x].seq
                      /\ rows'[x].state # rows[x].state =>
                            x \in Taken(w) /\ rows[x].state = "ready" /\ rows'[x].state \in {"published", "backoff"}
                      /\ rows'[x].state = "published" => rows[x].state = "published" \/ x \in tick[w].sent
    OBVIOUS
  <2>1. CASE x \in tick[w].sent
    BY <1>4, <1>r, <1>t, <2>1 DEF RowRecord, RowStates, TicksOK, Taken
  <2>2. CASE x \notin tick[w].sent /\ x \in tick[w].failed
    BY <1>4, <1>r, <1>t, <2>2 DEF RowRecord, RowStates, TicksOK, Taken
  <2>3. CASE x \notin tick[w].sent /\ x \notin tick[w].failed
    BY <1>4, <1>r, <2>3
  <2> QED
    BY <2>1, <2>2, <2>3
<1>6. rows' \in [OutboxEvents -> RowRecord]
  BY <1>4, <1>5
<1>7. RowsOK'
  BY <1>5, <1>6, <1>t, NumbersStay
<1>8. RowsGoOn
  <2> SUFFICES ASSUME NEW e \in OutboxEvents, Committed(e)
               PROVE  /\ Committed(e)' /\ rows'[e].seq = rows[e].seq
                      /\ LockedEvent(e) /\ PastSettled(e) => PastSettled(e)'
    BY DEF RowsGoOn
  <2>1. Committed(e)' /\ rows'[e].seq = rows[e].seq
    BY <1>5 DEF Committed
  <2>2. ASSUME PastSettled(e), NEW q \in Siblings(e), rows'[q].seq < rows'[e].seq
        PROVE  rows'[q].state \in {"none", "gone", "published"}
    <3>1. q \in OutboxEvents /\ rows[q].seq < rows[e].seq
      BY <1>5, <2>2 DEF Siblings
    <3>2. rows[q].state \in {"none", "gone", "published"}
      BY <2>2, <3>1 DEF PastSettled
    <3> QED
      BY <1>5, <3>1, <3>2
  <2> QED
    BY <2>1, <2>2 DEF PastSettled, Siblings
<1>9. Taken(w)' = {} /\ \A v \in Relays \ {w} : Taken(v)' = Taken(v)
  BY <1>1 DEF Taken, NoTick
<1>10. TicksOK'
  <2> SUFFICES ASSUME NEW v \in Relays \ {w}, NEW e \in Taken(v)
               PROVE  rows'[e].state = "ready" /\ (LockedEvent(e) => PastSettled(e)')
    BY <1>9, <1>t DEF TicksOK, LockedEvent
  <2>1. e \in OutboxEvents /\ e \notin Taken(w) /\ rows[e].state = "ready"
    BY <1>0, <1>t DEF TicksOK
  <2>2. rows'[e].state = "ready"
    BY <1>5, <2>1
  <2>3. LockedEvent(e) => PastSettled(e)
    BY <1>t DEF TicksOK
  <2> QED
    BY <1>8, <2>1, <2>2, <2>3 DEF RowsGoOn, Committed
<1>11. \A e \in OutboxEvents : WasSent(e)' => WasSent(e) /\ Committed(e)
  <2> SUFFICES ASSUME NEW e \in OutboxEvents, WasSent(e)'
               PROVE  WasSent(e) /\ Committed(e)
    OBVIOUS
  <2>1. WasSent(e)
    BY <1>1, <1>5 DEF WasSent, NoTick
  <2>2. Committed(e)
    BY <2>1, <1>t DEF WasSent, Committed, TicksOK, Taken
  <2> QED
    BY <2>1, <2>2
<1>12. PublishedOK'
  <2>1. \A a \in LockedWriters : published[a] \in OutboxEvents \cup {NoOutboxEvent}
    BY <1>t, EventsAssumption DEF EventsTypeOK
  <2>2. \A e \in OutboxEvents : Committed(e) => rows'[e].seq = rows[e].seq /\ Committed(e)'
    BY <1>8 DEF RowsGoOn
  <2>3. \A a \in LockedWriters :
          published[a] # NoOutboxEvent =>
              AggregateOf[published[a]] = a /\ Committed(published[a])' /\ PastSettled(published[a])'
    BY <1>2, <1>8, <2>1 DEF EventsInv, PublishedOK, RowsGoOn, LockedEvent
  <2>4. \A a \in LockedWriters, e \in OutboxEvents : AggregateOf[e] = a /\ WasSent(e)' =>
              published[a] # NoOutboxEvent /\ rows'[e].seq <= rows'[published[a]].seq
    BY <1>2, <1>11, <2>1, <2>2 DEF EventsInv, PublishedOK
  <2> QED
    BY <1>2, <2>3, <2>4 DEF PublishedOK
<1>13. EventsTypeOK'
  BY <1>1, <1>2, <1>6, <1>t DEF EventsTypeOK, TickRecord, RowRecord, RowStates
<1> QED
  BY <1>2, <1>7, <1>8, <1>10, <1>12, <1>13, NoticesStay DEF EventsInv

\* A relay that stops forgets what it holds.
LEMMA RelayStopsStep ==
    ASSUME EventsInv, NEW w \in Relays, RelayStops(w)
    PROVE  EventsInv'
<1>t. EventsTypeOK /\ RowsOK /\ TicksOK
  BY DEF EventsInv
<1>0. NoTick \in TickRecord /\ \A v \in Relays : Taken(v) \subseteq OutboxEvents
  BY <1>t DEF NoTick, TickRecord, Taken, EventsTypeOK
<1>1. /\ tick' \in [Relays -> TickRecord]
      /\ tick'[w] = NoTick /\ \A v \in Relays \ {w} : tick'[v] = tick[v]
  BY <1>0, <1>t, TickMoves DEF RelayStops
<1>2. UNCHANGED <<rows, published, queued, handling, inbox, pushes>>
  BY DEF RelayStops
<1>3. faults' \in 0 .. MaxFaults
  BY <1>t, EventsAssumption DEF RelayStops, Fault, EventsTypeOK
<1>4. Taken(w)' = {} /\ \A v \in Relays \ {w} : Taken(v)' = Taken(v)
  BY <1>1 DEF Taken, NoTick
<1>5. TicksOK'
  BY <1>0, <1>2, <1>4, <1>t DEF TicksOK, LockedEvent, PastSettled, Siblings
<1>6. \A e \in OutboxEvents : WasSent(e)' => WasSent(e)
  BY <1>1, <1>2 DEF WasSent, NoTick
<1>7. PublishedOK'
  BY <1>2, <1>6 DEF EventsInv, PublishedOK, PastSettled, Siblings, Committed
<1>8. EventsTypeOK'
  BY <1>1, <1>2, <1>3, <1>t DEF EventsTypeOK, TickRecord
<1> QED
  BY <1>2, <1>5, <1>7, <1>8
     DEF EventsInv, RowsOK, NoticesOK, ToldOncePerEvent, LockedEvent, Siblings, Numbered, Committed
\* What a consumer handles changes as a whole.
LEMMA HandlingMoves ==
    ASSUME EventsTypeOK, NEW c \in Consumers, NEW r \in HandlingRecord,
           handling' = [handling EXCEPT ![c] = r]
    PROVE  /\ handling' \in [Consumers -> HandlingRecord]
           /\ handling'[c] = r /\ \A d \in Consumers \ {c} : handling'[d] = handling[d]
<1>1. handling \in [Consumers -> HandlingRecord]
  BY DEF EventsTypeOK, HandlingRecord
<1> QED
  BY <1>1

\* A step of the consumers leaves the rows and the relays alone.
LEMMA ConsumerMoves ==
    ASSUME EventsInv, UNCHANGED <<rows, tick, published>>,
           queued' \subseteq OutboxEvents, handling' \in [Consumers -> HandlingRecord],
           inbox' \subseteq OutboxEvents \X Users, pushes' \in [OutboxEvents \X Users -> Nat],
           faults' \in 0 .. MaxFaults,
           NoticesOK', ToldOncePerEvent'
    PROVE  EventsInv'
<1>1. EventsTypeOK'
  BY DEF EventsInv, EventsTypeOK, HandlingRecord
<1>2. RowsOK' /\ TicksOK'
  BY SMTT(60) DEF EventsInv, RowsOK, TicksOK, Taken, LockedEvent, PastSettled, Siblings, Numbered
<1>3. PublishedOK'
  BY DEF EventsInv, PublishedOK, WasSent, PastSettled, Siblings, Committed
<1> QED
  BY <1>1, <1>2, <1>3 DEF EventsInv

\* A message is received, or done with: whoever handles it pushes nothing now.
LEMMA HandlingStep ==
    ASSUME EventsInv, NEW c \in Consumers,
           \/ \E e \in OutboxEvents : Receive(c, e)
           \/ Acknowledge(c) \/ HandlerFails(c)
    PROVE  EventsInv'
<1>t. EventsTypeOK /\ NoticesOK /\ ToldOncePerEvent
  BY DEF EventsInv
<1>0. /\ queued \subseteq OutboxEvents /\ inbox \subseteq OutboxEvents \X Users
      /\ pushes \in [OutboxEvents \X Users -> Nat]
      /\ handling \in [Consumers -> HandlingRecord] /\ faults \in 0 .. MaxFaults
  BY <1>t DEF EventsTypeOK, HandlingRecord
<1>1. PICK r \in HandlingRecord :
          /\ handling' = [handling EXCEPT ![c] = r]
          /\ r.push = NobodyPushed
          /\ r.event # NoOutboxEvent => Committed(r.event)
          /\ r.event = NoOutboxEvent => r.todo = {}
  <2>1. ASSUME NEW e \in OutboxEvents, Receive(c, e)
        PROVE  \E r \in HandlingRecord :
                  /\ handling' = [handling EXCEPT ![c] = r]
                  /\ r.push = NobodyPushed
                  /\ r.event # NoOutboxEvent => Committed(r.event)
                  /\ r.event = NoOutboxEvent => r.todo = {}
    <3> DEFINE r == [event |-> e, todo |-> NoticeOf[e], push |-> NobodyPushed]
    <3>1. r \in HandlingRecord /\ e # NoOutboxEvent
      BY EventsAssumption DEF HandlingRecord
    <3>2. Committed(e) /\ handling' = [handling EXCEPT ![c] = r]
      BY <2>1, <1>t DEF Receive, NoticesOK
    <3>3. r.push = NobodyPushed /\ r.event = e
      OBVIOUS
    <3> HIDE DEF r
    <3> QED
      BY <3>1, <3>2, <3>3
  <2>2. ASSUME Acknowledge(c) \/ HandlerFails(c)
        PROVE  \E r \in HandlingRecord :
                  /\ handling' = [handling EXCEPT ![c] = r]
                  /\ r.push = NobodyPushed
                  /\ r.event # NoOutboxEvent => Committed(r.event)
                  /\ r.event = NoOutboxEvent => r.todo = {}
    <3>1. Free \in HandlingRecord
      BY DEF HandlingRecord, Free
    <3>2. Free.push = NobodyPushed /\ Free.event = NoOutboxEvent /\ Free.todo = {}
      BY DEF Free
    <3>3. handling' = [handling EXCEPT ![c] = Free]
      BY <2>2 DEF Acknowledge, HandlerFails
    <3> QED
      BY <3>1, <3>2, <3>3
  <2> QED
    BY <2>1, <2>2
<1>2. /\ handling' \in [Consumers -> HandlingRecord]
      /\ handling'[c] = r /\ \A d \in Consumers \ {c} : handling'[d] = handling[d]
  BY <1>1, <1>t, HandlingMoves
<1>3. queued' \subseteq queued /\ UNCHANGED <<rows, tick, published, inbox, pushes>>
  BY DEF Receive, Acknowledge, HandlerFails
<1>4. faults' \in 0 .. MaxFaults
  BY <1>0, EventsAssumption DEF Receive, Acknowledge, HandlerFails, Fault
<1>5. NoticesOK'
  <2>1. \A x \in queued' : Committed(x)'
    BY <1>3, <1>t DEF NoticesOK, Committed
  <2>2. \A d \in Consumers :
          /\ handling'[d].event # NoOutboxEvent => Committed(handling'[d].event)
          /\ handling'[d].event = NoOutboxEvent => handling'[d].todo = {} /\ handling'[d].push = NobodyPushed
          /\ handling'[d].push # NobodyPushed =>
                 /\ <<handling'[d].event, handling'[d].push>> \in inbox
                 /\ pushes[<<handling'[d].event, handling'[d].push>>] = 0
    BY <1>1, <1>2, <1>t DEF NoticesOK
  <2>3. \A d, b \in Consumers : d # b /\ handling'[d].push # NobodyPushed =>
          handling'[d].event # handling'[b].event \/ handling'[d].push # handling'[b].push
    BY <1>1, <1>2, <1>t DEF NoticesOK
  <2> QED
    BY <1>3, <2>1, <2>2, <2>3 DEF NoticesOK, Committed
<1>6. ToldOncePerEvent'
  BY <1>3, <1>t DEF ToldOncePerEvent, Committed
<1> QED
  BY <1>0, <1>2, <1>3, <1>4, <1>5, <1>6, ConsumerMoves

\* The notification is inserted; only who inserted it is about to push.
LEMMA InsertNoticeStep ==
    ASSUME EventsInv, NEW c \in Consumers, NEW u \in Users, InsertNotice(c, u)
    PROVE  EventsInv'
<1> DEFINE e == handling[c].event
           a == handling[c].todo \ {u}
           b == IF <<e, u>> \in inbox THEN NobodyPushed ELSE u
           r == [event |-> e, todo |-> a, push |-> b]
<1>t. EventsTypeOK /\ NoticesOK /\ ToldOncePerEvent
  BY DEF EventsInv
<1>0. /\ queued \subseteq OutboxEvents /\ inbox \subseteq OutboxEvents \X Users
      /\ pushes \in [OutboxEvents \X Users -> Nat]
      /\ handling \in [Consumers -> HandlingRecord] /\ faults \in 0 .. MaxFaults
  BY <1>t DEF EventsTypeOK, HandlingRecord
<1>1. /\ handling[c] \in HandlingRecord
      /\ handling[c].push = NobodyPushed /\ u \in handling[c].todo
  BY <1>0 DEF InsertNotice
<1>2. e \in OutboxEvents /\ e # NoOutboxEvent /\ Committed(e)
  BY <1>1, <1>t DEF NoticesOK, HandlingRecord
<1>3. [handling[c] EXCEPT !.todo = a, !.push = b] = r
  <2>1. [handling[c] EXCEPT !.todo = a, !.push = b] = [[handling[c] EXCEPT !.todo = a] EXCEPT !.push = b]
    BY Zenon
  <2> HIDE DEF a, b
  <2>2. [handling[c] EXCEPT !.todo = a] = [event |-> e, todo |-> a, push |-> handling[c].push]
    BY <1>1 DEF HandlingRecord
  <2>3. [[event |-> e, todo |-> a, push |-> handling[c].push] EXCEPT !.push = b] = r
    OBVIOUS
  <2> QED
    BY <2>1, <2>2, <2>3
<1>4. handling' = [handling EXCEPT ![c] = r]
  BY <1>3 DEF InsertNotice
<1>5. r \in HandlingRecord
  BY <1>1, <1>2 DEF HandlingRecord
<1>6. r.event = e /\ r.todo = a /\ r.push = b
  OBVIOUS
<1>7. /\ inbox' = inbox \cup {<<e, u>>}
      /\ UNCHANGED <<rows, tick, published, queued, pushes, faults>>
  BY DEF InsertNotice
<1>8. /\ handling' \in [Consumers -> HandlingRecord]
      /\ handling'[c] = r /\ \A d \in Consumers \ {c} : handling'[d] = handling[d]
  <2> HIDE DEF r
  <2> QED
    BY <1>4, <1>5, <1>t, HandlingMoves
<1>9. b # NobodyPushed => b = u /\ <<e, u>> \notin inbox /\ pushes[<<e, u>>] = 0
  BY <1>0, <1>2, <1>t DEF ToldOncePerEvent
<1>10. inbox' \subseteq OutboxEvents \X Users
  BY <1>0, <1>2, <1>7
<1> HIDE DEF r, a, b, e
<1>11. NoticesOK'
  <2>1. \A x \in queued' : Committed(x)'
    BY <1>7, <1>t DEF NoticesOK, Committed
  <2>2. ASSUME NEW d \in Consumers
        PROVE  /\ handling'[d].event # NoOutboxEvent => Committed(handling'[d].event)
               /\ handling'[d].event = NoOutboxEvent => handling'[d].todo = {} /\ handling'[d].push = NobodyPushed
               /\ handling'[d].push # NobodyPushed =>
                      /\ <<handling'[d].event, handling'[d].push>> \in inbox'
                      /\ pushes[<<handling'[d].event, handling'[d].push>>] = 0
    <3>1. CASE d = c
      BY <1>2, <1>6, <1>7, <1>8, <1>9, <3>1
    <3>2. CASE d # c
      BY <1>7, <1>8, <1>t, <3>2 DEF NoticesOK
    <3> QED
      BY <3>1, <3>2
  <2>3. ASSUME NEW d \in Consumers, d # c, b # NobodyPushed, handling[d].push # NobodyPushed
        PROVE  handling[d].event # e \/ handling[d].push # u
    BY <1>9, <1>t, <2>3 DEF NoticesOK
  <2>4. \A d, f \in Consumers : d # f /\ handling'[d].push # NobodyPushed =>
          handling'[d].event # handling'[f].event \/ handling'[d].push # handling'[f].push
    BY <1>6, <1>8, <1>9, <1>t, <2>3 DEF NoticesOK
  <2> QED
    BY <1>7, <2>1, <2>2, <2>4 DEF NoticesOK, Committed
<1>12. ToldOncePerEvent'
  BY <1>2, <1>7, <1>t DEF ToldOncePerEvent, Committed
<1> QED
  BY <1>0, <1>7, <1>8, <1>10, <1>11, <1>12, ConsumerMoves

\* The phone is told, or not: no other handler is about to tell it the same.
LEMMA PushStep ==
    ASSUME EventsInv, NEW c \in Consumers, Push(c) \/ SkipPush(c)
    PROVE  EventsInv'
<1> DEFINE e == handling[c].event
           u == handling[c].push
           r == [event |-> e, todo |-> handling[c].todo, push |-> NobodyPushed]
<1>t. EventsTypeOK /\ NoticesOK /\ ToldOncePerEvent
  BY DEF EventsInv
<1>0. /\ queued \subseteq OutboxEvents /\ inbox \subseteq OutboxEvents \X Users
      /\ pushes \in [OutboxEvents \X Users -> Nat]
      /\ handling \in [Consumers -> HandlingRecord] /\ faults \in 0 .. MaxFaults
  BY <1>t DEF EventsTypeOK, HandlingRecord
<1>1. handling[c] \in HandlingRecord /\ u # NobodyPushed
  BY <1>0 DEF Push, SkipPush
<1>2. /\ e \in OutboxEvents /\ u \in Users /\ e # NoOutboxEvent
      /\ Committed(e) /\ <<e, u>> \in inbox /\ pushes[<<e, u>>] = 0
  BY <1>1, <1>t DEF NoticesOK, HandlingRecord
<1>3. [handling[c] EXCEPT !.push = NobodyPushed] = r
  BY <1>1 DEF HandlingRecord
<1>4. handling' = [handling EXCEPT ![c] = r]
  BY <1>3 DEF Push, SkipPush
<1>5. r \in HandlingRecord
  BY <1>1 DEF HandlingRecord
<1>6. r.event = e /\ r.push = NobodyPushed
  OBVIOUS
<1>7. /\ UNCHANGED <<rows, tick, published, queued, inbox, faults>>
      /\ pushes' = pushes \/ pushes' = [pushes EXCEPT ![<<e, u>>] = pushes[<<e, u>>] + 1]
  BY DEF Push, SkipPush
<1>8. /\ handling' \in [Consumers -> HandlingRecord]
      /\ handling'[c] = r /\ \A d \in Consumers \ {c} : handling'[d] = handling[d]
  <2> HIDE DEF r
  <2> QED
    BY <1>4, <1>5, <1>t, HandlingMoves
<1> HIDE DEF r
<1>9. /\ pushes' \in [OutboxEvents \X Users -> Nat]
      /\ pushes'[<<e, u>>] <= 1
      /\ \A n \in OutboxEvents \X Users : n # <<e, u>> => pushes'[n] = pushes[n]
  BY <1>0, <1>2, <1>7
<1> HIDE DEF e, u
<1>10. NoticesOK'
  <2>1. \A x \in queued' : Committed(x)'
    BY <1>7, <1>t DEF NoticesOK, Committed
  <2>2. ASSUME NEW d \in Consumers
        PROVE  /\ handling'[d].event # NoOutboxEvent => Committed(handling'[d].event)
               /\ handling'[d].event = NoOutboxEvent => handling'[d].todo = {} /\ handling'[d].push = NobodyPushed
               /\ handling'[d].push # NobodyPushed =>
                      /\ <<handling'[d].event, handling'[d].push>> \in inbox
                      /\ pushes'[<<handling'[d].event, handling'[d].push>>] = 0
    <3>1. CASE d = c
      BY <1>2, <1>6, <1>8, <3>1
    <3>2. CASE d # c
      <4>1. handling'[d] = handling[d] /\ handling[d] \in HandlingRecord
        BY <1>0, <1>8, <3>2
      <4>2. handling[d].push # NobodyPushed =>
                /\ handling[d].event \in OutboxEvents /\ handling[d].push \in Users
                /\ handling[d].event # e \/ handling[d].push # u
        BY <1>1, <1>t, <3>2, <4>1 DEF NoticesOK, HandlingRecord, e, u
      <4>3. handling[d].push # NobodyPushed =>
                pushes'[<<handling[d].event, handling[d].push>>] = pushes[<<handling[d].event, handling[d].push>>]
        BY <1>9, <4>2
      <4> QED
        BY <1>t, <4>1, <4>3 DEF NoticesOK
    <3> QED
      BY <3>1, <3>2
  <2>3. \A d, f \in Consumers : d # f /\ handling'[d].push # NobodyPushed =>
          handling'[d].event # handling'[f].event \/ handling'[d].push # handling'[f].push
    BY <1>6, <1>8, <1>t DEF NoticesOK
  <2> QED
    BY <1>7, <2>1, <2>2, <2>3 DEF NoticesOK, Committed
<1>11. ToldOncePerEvent'
  <2> SUFFICES ASSUME NEW f \in OutboxEvents, NEW v \in Users
               PROVE  /\ pushes'[<<f, v>>] <= 1
                      /\ pushes'[<<f, v>>] > 0 => <<f, v>> \in inbox
                      /\ <<f, v>> \in inbox => Committed(f)
    BY <1>7 DEF ToldOncePerEvent, Committed
  <2>1. CASE <<f, v>> = <<e, u>>
    BY <1>2, <1>9, <1>t, <2>1 DEF ToldOncePerEvent
  <2>2. CASE <<f, v>> # <<e, u>>
    BY <1>9, <1>t, <2>2 DEF ToldOncePerEvent
  <2> QED
    BY <2>1, <2>2
<1> QED
  BY <1>0, <1>7, <1>8, <1>9, <1>10, <1>11, ConsumerMoves

LEMMA EventsStep == EventsInv /\ [EventsNext]_eventVars => EventsInv'
<1> SUFFICES ASSUME EventsInv, [EventsNext]_eventVars
             PROVE  EventsInv'
  OBVIOUS
<1>1. CASE UNCHANGED eventVars
  <2>1. UNCHANGED <<rows, tick, published, queued, handling, inbox, pushes, faults>>
    BY <1>1 DEF eventVars
  <2>2. NoticesOK' /\ ToldOncePerEvent'
    BY <2>1 DEF EventsInv, NoticesOK, ToldOncePerEvent, Committed
  <2> QED
    BY <2>1, <2>2, ConsumerMoves DEF EventsInv, EventsTypeOK, HandlingRecord
<1>2. CASE EventsNext
  BY <1>2, EmitStep, RowStep, PublishStep, RelayTakesStep, RelayCommitsStep, RelayStopsStep,
     HandlingStep, InsertNoticeStep, PushStep DEF EventsNext
<1> QED
  BY <1>1, <1>2

LEMMA EventsInductive == EventsInit /\ [][EventsNext]_eventVars => []EventsInv
<1>1. EventsInit => EventsInv
  <2> SUFFICES ASSUME EventsInit
               PROVE  EventsInv
    OBVIOUS
  <2>1. Cardinality(OutboxEvents) \in Nat
    BY EventsAssumption, FS_CardinalityType
  <2>2. EventsTypeOK
    BY <2>1, EventsAssumption DEF EventsInit, EventsTypeOK, NoTick, Free
  <2>3. RowsOK
    <3>1. Cardinality(Numbered) \in Nat
      BY <2>2, RowFacts
    <3> QED
      BY <3>1 DEF EventsInit, RowsOK, LockedEvent, Siblings
  <2>4. TicksOK /\ PublishedOK
    BY EventsAssumption DEF EventsInit, TicksOK, Taken, NoTick, PublishedOK, WasSent
  <2>5. NoticesOK /\ ToldOncePerEvent
    BY DEF EventsInit, NoticesOK, Free, ToldOncePerEvent
  <2> QED
    BY <2>2, <2>3, <2>4, <2>5 DEF EventsInv
<1> QED
  BY <1>1, EventsStep, PTL

\* The outbox, the relays, the queue and the inbox are well typed.
THEOREM EventsTypeCorrect == EventsSpec => []EventsTypeOK
  BY EventsInductive, PTL DEF EventsSpec, EventsInv

\* Redelivery, a second consumer or a republication: a phone is told of an event
\* at most once, and only of one that committed and is in the inbox, for any
\* number of relays, consumers and failures (notifications/handler.go, deliver).
THEOREM ToldOncePerNotice == EventsSpec => []ToldOncePerEvent
  BY EventsInductive, PTL DEF EventsSpec, EventsInv

\* What an event follows in the topic is what committed before it, wherever the
\* writers hold the aggregate's lock (outbox.go, the relay's query and commit).
THEOREM TopicInOrder == EventsSpec => EventsInOrder
<1>1. EventsInv /\ [EventsNext]_eventVars =>
        [\A a \in LockedWriters :
            published'[a] # published[a] => FollowsIn(published'[a], published[a])]_eventVars
  <2> SUFFICES ASSUME EventsInv, [EventsNext]_eventVars,
                      NEW a \in LockedWriters, published'[a] # published[a]
               PROVE  FollowsIn(published'[a], published[a])
    OBVIOUS
  <2>1. PICK w \in Relays, e \in OutboxEvents : Publish(w, e) \/ PublishFails(w, e)
    BY DEF EventsNext, eventVars, Emit, EmitEnds, BackoffEnds, Receive, RelayTakes, RelayCommits,
           RelayStops, Push, SkipPush, Acknowledge, HandlerFails, InsertNotice
  <2>2. e \in Taken(w) /\ published' = [published EXCEPT ![AggregateOf[e]] = e]
    BY <2>1, PublishMoves
  <2>3. published \in [Aggregates -> OutboxEvents \cup {NoOutboxEvent}] /\ a \in Aggregates
    BY EventsAssumption DEF EventsInv, EventsTypeOK
  <2>4. a = AggregateOf[e] /\ published'[a] = e
    BY <2>2, <2>3
  <2>5. LockedEvent(e)
    BY <2>4 DEF LockedEvent
  <2> QED
    BY <2>2, <2>4, <2>5, HeldFollows
<1> QED
  BY <1>1, EventsInductive, PTL DEF EventsSpec, EventsInOrder
-----------------------------------------------------------------------------
(***************************************************************************)
(* Payouts.  CreateBatch goes over a driver once, so whoever it still has  *)
(* to do was not debited, and the one that it stands at was debited only   *)
(* between the two writes; an answer of the bank is for an item that is.   *)
(* While one batch at a time is about to debit a driver, what it read is   *)
(* still his.                                                              *)
(***************************************************************************)
BatchRecord == [
    status : {"none", "pending", "exported", "completed"},
    step : {"idle", "each", "debit", "insert", "done", "stopped"},
    todo : SUBSET PaidDrivers, at : PaidDrivers \cup {NoDriverPaid}, amount : Nat]
ItemRecord == [status : {"none", "pending", "paid", "failed"}, amount : Nat]

AtOK(r) == r.step \in {"debit", "insert"} => r.at \in PaidDrivers /\ r.amount >= MinPayoutMinor

ItemOK(b, d) ==
    /\ item[b][d].status # "none" => item[b][d].amount = posted[b][d] /\ posted[b][d] >= MinPayoutMinor
    /\ <<b, d>> \in givenBack => item[b][d].status = "failed"
    /\ item[b][d].status = "failed" /\ <<b, d>> \notin givenBack => answering[b][d] \in {"reverse", "stopped"}
    /\ answering[b][d] = "reverse" => item[b][d].status = "failed" /\ <<b, d>> \notin givenBack
    /\ answering[b][d] # "no" => item[b][d].status \in {"paid", "failed"}

DebitOK(r, b, d) ==
    /\ posted[b][d] > 0 /\ item[b][d].status = "none" => r.at = d /\ r.step \in {"insert", "stopped"}
    /\ r.step = "idle" => posted[b][d] = 0 /\ item[b][d].status = "none"
    /\ r.step \in {"each", "debit", "insert"} /\ d \in r.todo => posted[b][d] = 0 /\ item[b][d].status = "none"
    /\ r.step \in {"debit", "insert"} /\ r.at = d =>
           /\ d \notin r.todo /\ item[b][d].status = "none"
           /\ r.step = "debit" => posted[b][d] = 0
           /\ r.step = "insert" => posted[b][d] = r.amount

PayoutsInv ==
    /\ PayoutsTypeOK
    /\ \A b \in Batches : AtOK(batch[b])
    /\ \A b \in Batches, d \in PaidDrivers : ItemOK(b, d) /\ DebitOK(batch[b], b, d)

\* One entry of a table of tables changes.
LEMMA EntryMoves ==
    ASSUME NEW R, NEW f \in [Batches -> [PaidDrivers -> R]], NEW g,
           NEW b \in Batches, NEW d \in PaidDrivers, NEW v \in R, g = [f EXCEPT ![b][d] = v]
    PROVE  /\ g \in [Batches -> [PaidDrivers -> R]]
           /\ g[b][d] = v
           /\ \A c \in Batches, e \in PaidDrivers : c # b \/ e # d => g[c][e] = f[c][e]
<1>1. f[b] \in [PaidDrivers -> R] /\ g = [f EXCEPT ![b] = [f[b] EXCEPT ![d] = v]]
  OBVIOUS
<1>2. /\ [f[b] EXCEPT ![d] = v] \in [PaidDrivers -> R]
      /\ [f[b] EXCEPT ![d] = v][d] = v
      /\ \A e \in PaidDrivers : e # d => [f[b] EXCEPT ![d] = v][e] = f[b][e]
  BY <1>1
<1>3. g[b] = [f[b] EXCEPT ![d] = v] /\ \A c \in Batches : c # b => g[c] = f[c]
  BY <1>1
<1> QED
  BY <1>1, <1>2, <1>3

\* A row of payout_batches changes.
LEMMA BatchMoves ==
    ASSUME PayoutsTypeOK, NEW b \in Batches, NEW r \in BatchRecord, batch' = [batch EXCEPT ![b] = r]
    PROVE  /\ batch' \in [Batches -> BatchRecord]
           /\ batch'[b] = r /\ \A c \in Batches \ {b} : batch'[c] = batch[c]
<1>1. batch \in [Batches -> BatchRecord]
  BY DEF PayoutsTypeOK, BatchRecord
<1> QED
  BY <1>1

\* The debits of a driver in the table p which do not come back by the reversals g.
Kept(g, d) == {b \in Batches : <<b, d>> \notin g}
Column(p, d) == [b \in Batches |-> p[b][d]]
Unreturned(p, g, d) == SumOf(Column(p, d), Kept(g, d))

\* What a table holds for a driver is a sum over batches.
LEMMA TableIsSum ==
    ASSUME NEW p, NEW bs \in SUBSET Batches, NEW d
    PROVE  MapThenSumSet(LAMBDA b : p[b][d], bs) = SumOf(Column(p, d), bs)
<1> DEFINE f == [b \in bs |-> p[b][d]]
<1>1. MapThenSumSet(LAMBDA b : p[b][d], bs) =
        (CHOOSE g : g = [s \in SUBSET bs |->
            IF s = {} THEN 0 ELSE p[First(s)][d] + g[s \ {First(s)}]])[bs]
  BY Zenon DEF MapThenSumSet, MapThenFoldSet, First
<1>2. \A s \in SUBSET bs : s # {} => Column(p, d)[First(s)] = p[First(s)][d]
  BY DEF First, Column
<1> DEFINE h == Column(p, d)
<1> HIDE DEF h
<1>3. \A g : [s \in SUBSET bs |-> IF s = {} THEN 0 ELSE p[First(s)][d] + g[s \ {First(s)}]]
           = [s \in SUBSET bs |-> IF s = {} THEN 0 ELSE h[First(s)] + g[s \ {First(s)}]]
  BY <1>2 DEF h
<1>4. (CHOOSE g : g = [s \in SUBSET bs |->
            IF s = {} THEN 0 ELSE p[First(s)][d] + g[s \ {First(s)}]])
      = (CHOOSE g : g = [s \in SUBSET bs |-> IF s = {} THEN 0 ELSE h[First(s)] + g[s \ {First(s)}]])
  BY <1>3
<1>5. SumOf(h, bs) =
        (CHOOSE g : g = [s \in SUBSET bs |-> IF s = {} THEN 0 ELSE h[First(s)] + g[s \ {First(s)}]])[bs]
  BY Zenon DEF SumOf, IsSum
<1>6. MapThenSumSet(LAMBDA b : p[b][d], bs) = SumOf(h, bs)
  BY <1>1, <1>4, <1>5, Zenon
<1> QED
  BY <1>6 DEF h

LEMMA PaidOutIsSum ==
    \A d \in PaidDrivers : PaidOut(d) = Unreturned(posted, givenBack, d)
<1> SUFFICES ASSUME NEW d \in PaidDrivers
             PROVE  PaidOut(d) = Unreturned(posted, givenBack, d)
  OBVIOUS
<1>1. Kept(givenBack, d) \in SUBSET Batches
  BY DEF Kept
<1>2. MapThenSumSet(LAMBDA b : posted[b][d], Kept(givenBack, d)) = Unreturned(posted, givenBack, d)
  BY <1>1, TableIsSum DEF Unreturned
<1>3. PaidOut(d) = MapThenSumSet(LAMBDA b : posted[b][d], Kept(givenBack, d))
  BY Zenon DEF PaidOut, PostedIn, Kept
<1> QED
  BY <1>2, <1>3, Zenon

LEMMA PaidOutIsSumThen ==
    \A d \in PaidDrivers : PaidOut(d)' = Unreturned(posted', givenBack', d)
<1>1. (\A d \in PaidDrivers : PaidOut(d) = Unreturned(posted, givenBack, d))'
  BY PaidOutIsSum, PTL
<1> QED
  BY <1>1, Zenon DEF Unreturned, Kept, Column

LEMMA UnreturnedIsNat ==
    ASSUME NEW p \in [Batches -> [PaidDrivers -> Nat]], NEW g, NEW d \in PaidDrivers
    PROVE  /\ Unreturned(p, g, d) \in Nat
           /\ \A b \in Kept(g, d) :
                /\ SumOf(Column(p, d), Kept(g, d) \ {b}) \in Nat
                /\ Unreturned(p, g, d) = p[b][d] + SumOf(Column(p, d), Kept(g, d) \ {b})
<1> DEFINE f == Column(p, d)
<1>1. IsFiniteSet(Batches) /\ Kept(g, d) \in SUBSET Batches
  BY PayoutsAssumption DEF Kept
<1>2. \A b \in Batches : f[b] = p[b][d] /\ f[b] \in Nat /\ f[b] \in Int
  <2> TAKE b \in Batches
  <2>1. p[b] \in [PaidDrivers -> Nat] /\ f[b] = p[b][d]
    BY DEF Column
  <2>2. p[b][d] \in Nat
    BY <2>1
  <2> HIDE DEF f
  <2> QED
    BY <2>1, <2>2
<1> HIDE DEF f
<1>3. \A s \in SUBSET Batches : SumOf(f, s) \in Nat
  BY <1>1, <1>2, SumIsNat
<1>4. Unreturned(p, g, d) = SumOf(f, Kept(g, d))
  BY DEF Unreturned, f
<1>5. ASSUME NEW b \in Kept(g, d)
      PROVE  /\ SumOf(f, Kept(g, d) \ {b}) \in Nat
             /\ Unreturned(p, g, d) = p[b][d] + SumOf(f, Kept(g, d) \ {b})
  <2> DEFINE K == Kept(g, d)
  <2>1. K \in SUBSET Batches /\ K \ {b} \in SUBSET Batches /\ b \in Batches /\ b \in K
    BY <1>1
  <2>2. \A c \in Batches : f[c] \in Int
    BY <1>2
  <2> HIDE DEF K
  <2>3. SumOf(f, K) = f[b] + SumOf(f, K \ {b})
    BY <1>1, <2>1, <2>2, SumRemoves, Z3
  <2>4. SumOf(f, K \ {b}) \in Nat /\ f[b] = p[b][d]
    BY <1>2, <1>3, <2>1
  <2> QED
    BY <1>4, <2>3, <2>4 DEF K
<1> QED
  BY <1>1, <1>3, <1>4, <1>5 DEF f

\* The sum only looks at the entries of the driver.
LEMMA SumsAgree ==
    ASSUME NEW p, NEW q, NEW d, NEW s \in SUBSET Batches,
           \A b \in s : q[b][d] = p[b][d]
    PROVE  SumOf(Column(q, d), s) = SumOf(Column(p, d), s)
<1> DEFINE f == Column(p, d)
           h == Column(q, d)
<1>1. IsFiniteSet(s) /\ s \in SUBSET s
  BY PayoutsAssumption, FS_Subset
<1>2. \A b \in s : h[b] = f[b]
  BY DEF Column
<1> HIDE DEF f, h
<1>3. SumOf(h, s) = SumOf(f, s)
  BY <1>1, <1>2, SumAgrees
<1> QED
  BY <1>3 DEF f, h

\* A step that leaves the entries of a driver leaves what he was paid.
LEMMA PaidOutStays ==
    ASSUME NEW d \in PaidDrivers,
           \A c \in Batches : posted'[c][d] = posted[c][d],
           \A c \in Batches : <<c, d>> \in givenBack' <=> <<c, d>> \in givenBack
    PROVE  PaidOut(d)' = PaidOut(d)
<1>1. Kept(givenBack', d) = Kept(givenBack, d) /\ Kept(givenBack, d) \in SUBSET Batches
  BY DEF Kept
<1>2. SumOf(Column(posted', d), Kept(givenBack, d)) = SumOf(Column(posted, d), Kept(givenBack, d))
  <2>1. \A c \in Kept(givenBack, d) : posted'[c][d] = posted[c][d]
    BY <1>1
  <2> QED
    BY <1>1, <2>1, SumsAgree
<1>3. Unreturned(posted', givenBack', d) = Unreturned(posted, givenBack, d)
  BY <1>1, <1>2 DEF Unreturned
<1> QED
  BY <1>3, PaidOutIsSum, PaidOutIsSumThen

\* A debit raises it by its amount, and a reversal lowers it.
LEMMA PaidOutMoves ==
    ASSUME PayoutsTypeOK, posted' \in [Batches -> [PaidDrivers -> Nat]], NEW d \in PaidDrivers, NEW b \in Batches
    PROVE  /\ (/\ <<b, d>> \notin givenBack /\ givenBack' = givenBack /\ posted[b][d] = 0
               /\ \A c \in Batches \ {b} : posted'[c][d] = posted[c][d])
              => PaidOut(d)' = PaidOut(d) + posted'[b][d]
           /\ (/\ posted' = posted
               /\ <<b, d>> \notin givenBack /\ givenBack' = givenBack \cup {<<b, d>>})
              => PaidOut(d)' <= PaidOut(d)
<1> DEFINE p == posted
           q == posted'
           g == givenBack
           h == givenBack'
           rest == Kept(g, d) \ {b}
<1>1. PaidOut(d) = Unreturned(p, g, d) /\ PaidOut(d)' = Unreturned(q, h, d)
  BY PaidOutIsSum, PaidOutIsSumThen
<1>2. p \in [Batches -> [PaidDrivers -> Nat]] /\ q \in [Batches -> [PaidDrivers -> Nat]]
  BY DEF PayoutsTypeOK
<1> HIDE DEF p, q, g, h
<1>3. Kept(g, d) \in SUBSET Batches /\ rest \in SUBSET Batches
  BY DEF Kept
<1>5. ASSUME <<b, d>> \notin g, h = g, p[b][d] = 0, \A c \in Batches \ {b} : q[c][d] = p[c][d]
      PROVE  Unreturned(q, h, d) = Unreturned(p, g, d) + q[b][d]
  <2>1. b \in Kept(g, d) /\ Kept(h, d) = Kept(g, d)
    BY <1>5 DEF Kept
  <2>2. SumOf(Column(q, d), rest) = SumOf(Column(p, d), rest)
    BY <1>3, <1>5, SumsAgree
  <2>3. /\ SumOf(Column(p, d), rest) \in Nat /\ q[b][d] \in Nat
        /\ Unreturned(p, g, d) = p[b][d] + SumOf(Column(p, d), rest)
    BY <1>2, <2>1, UnreturnedIsNat
  <2>4. Unreturned(q, g, d) = q[b][d] + SumOf(Column(q, d), rest)
    BY <1>2, <2>1, UnreturnedIsNat
  <2> HIDE DEF rest
  <2> QED
    BY <1>5, <2>2, <2>3, <2>4
<1>6. ASSUME q = p, <<b, d>> \notin g, h = g \cup {<<b, d>>}
      PROVE  Unreturned(q, h, d) <= Unreturned(p, g, d)
  <2>1. b \in Kept(g, d) /\ Kept(h, d) = rest
    BY <1>6 DEF Kept
  <2>2. /\ SumOf(Column(p, d), rest) \in Nat /\ p[b][d] \in Nat
        /\ Unreturned(p, g, d) = p[b][d] + SumOf(Column(p, d), rest)
    BY SMTT(60), <1>2, <2>1, UnreturnedIsNat
  <2>3. Unreturned(q, h, d) = SumOf(Column(p, d), rest)
    BY <1>6, <2>1 DEF Unreturned
  <2> HIDE DEF rest
  <2> QED
    BY <2>2, <2>3
<1> QED
  BY <1>1, <1>5, <1>6 DEF p, q, g, h

\* So what a driver was paid, and his balance, are numbers.
LEMMA PaidOutIsNat ==
    ASSUME PayoutsTypeOK, NEW d \in PaidDrivers
    PROVE  PaidOut(d) \in Nat /\ earned[d] \in Nat /\ charged[d] \in Nat
<1>1. posted \in [Batches -> [PaidDrivers -> Nat]]
  BY DEF PayoutsTypeOK
<1>2. Unreturned(posted, givenBack, d) \in Nat
  BY <1>1, UnreturnedIsNat
<1>3. earned[d] \in Nat /\ charged[d] \in Nat
  BY PayoutsAssumption DEF PayoutsTypeOK
<1> QED
  BY <1>2, <1>3, PaidOutIsSum

LEMMA BalanceIsInt ==
    ASSUME PayoutsTypeOK, NEW d \in PaidDrivers
    PROVE  /\ Balance(d) \in Int
           /\ PaidOut(d) + Balance(d) <= earned[d]
<1>1. PaidOut(d) \in Nat /\ earned[d] \in Nat /\ charged[d] \in Nat
  BY PaidOutIsNat
<1> DEFINE n == PaidOut(d)
<1>2. Balance(d) = earned[d] - charged[d] - n
  BY DEF Balance
<1> HIDE DEF n
<1>3. n \in Nat
  BY <1>1 DEF n
<1>4. Balance(d) \in Int /\ n + Balance(d) <= earned[d]
  BY <1>1, <1>2, <1>3
<1> QED
  BY <1>4 DEF n

\* One field of the row changes.
LEMMA BatchField ==
    ASSUME PayoutsTypeOK, NEW b \in Batches, NEW x
    PROVE  /\ batch' = [batch EXCEPT ![b].status = x] =>
                batch' = [batch EXCEPT ![b] =
                    [status |-> x, step |-> batch[b].step, todo |-> batch[b].todo,
                     at |-> batch[b].at, amount |-> batch[b].amount]]
           /\ batch' = [batch EXCEPT ![b].step = x] =>
                batch' = [batch EXCEPT ![b] =
                    [status |-> batch[b].status, step |-> x, todo |-> batch[b].todo,
                     at |-> batch[b].at, amount |-> batch[b].amount]]
<1> DEFINE r == batch[b]
<1>1. r \in BatchRecord
  BY DEF PayoutsTypeOK, BatchRecord
<1>2. /\ [r EXCEPT !.status = x] =
            [status |-> x, step |-> r.step, todo |-> r.todo, at |-> r.at, amount |-> r.amount]
      /\ [r EXCEPT !.step = x] =
            [status |-> r.status, step |-> x, todo |-> r.todo, at |-> r.at, amount |-> r.amount]
  BY <1>1 DEF BatchRecord
<1>3. /\ [batch EXCEPT ![b].status = x] = [batch EXCEPT ![b] = [batch[b] EXCEPT !.status = x]]
      /\ [batch EXCEPT ![b].step = x] = [batch EXCEPT ![b] = [batch[b] EXCEPT !.step = x]]
  OBVIOUS
<1> QED
  BY <1>2, <1>3

\* The row as CreateBatch leaves it.
LEMMA CreateMoves ==
    ASSUME PayoutsTypeOK, NEW b \in Batches, CreateBatch(b)
    PROVE  batch' = [batch EXCEPT ![b] =
               [status |-> "pending", step |-> "each", todo |-> banked,
                at |-> batch[b].at, amount |-> batch[b].amount]]
<1> DEFINE r == batch[b]
<1>1. r \in BatchRecord
  BY DEF PayoutsTypeOK, BatchRecord
<1>2. [r EXCEPT !.status = "pending", !.step = "each", !.todo = banked] =
        [[[r EXCEPT !.status = "pending"] EXCEPT !.step = "each"] EXCEPT !.todo = banked]
  BY Zenon
<1>3. [r EXCEPT !.status = "pending"] =
        [status |-> "pending", step |-> r.step, todo |-> r.todo, at |-> r.at, amount |-> r.amount]
  BY <1>1 DEF BatchRecord
<1>4. [[status |-> "pending", step |-> r.step, todo |-> r.todo, at |-> r.at, amount |-> r.amount]
            EXCEPT !.step = "each"] =
        [status |-> "pending", step |-> "each", todo |-> r.todo, at |-> r.at, amount |-> r.amount]
  OBVIOUS
<1>5. [[status |-> "pending", step |-> "each", todo |-> r.todo, at |-> r.at, amount |-> r.amount]
            EXCEPT !.todo = banked] =
        [status |-> "pending", step |-> "each", todo |-> banked, at |-> r.at, amount |-> r.amount]
  OBVIOUS
<1>6. [r EXCEPT !.status = "pending", !.step = "each", !.todo = banked] =
        [status |-> "pending", step |-> "each", todo |-> banked, at |-> r.at, amount |-> r.amount]
  BY <1>2, <1>3, <1>4, <1>5
<1> QED
  BY <1>6 DEF CreateBatch

\* The row as the loop leaves it: the next candidate is carried over, or is due.
LEMMA PayNextMoves ==
    ASSUME PayoutsTypeOK, NEW b \in Batches, PayNext(b)
    PROVE  \E d \in batch[b].todo :
             \/ batch' = [batch EXCEPT ![b] =
                    [status |-> batch[b].status, step |-> batch[b].step, todo |-> batch[b].todo \ {d},
                     at |-> batch[b].at, amount |-> batch[b].amount]]
             \/ /\ Balance(d) >= MinPayoutMinor
                /\ batch' = [batch EXCEPT ![b] =
                    [status |-> batch[b].status, step |-> "debit", todo |-> batch[b].todo \ {d},
                     at |-> d, amount |-> Balance(d)]]
<1> DEFINE r == batch[b]
<1>1. r \in BatchRecord
  BY DEF PayoutsTypeOK, BatchRecord
<1>2. PICK d \in r.todo :
        batch' = [batch EXCEPT ![b] =
            IF Balance(d) < MinPayoutMinor
            THEN [r EXCEPT !.todo = r.todo \ {d}]
            ELSE [r EXCEPT !.step = "debit", !.todo = r.todo \ {d}, !.at = d, !.amount = Balance(d)]]
  BY ZenonT(90) DEF PayNext
<1> DEFINE t == r.todo \ {d}
           n == Balance(d)
<1>3. [r EXCEPT !.todo = t] =
        [status |-> r.status, step |-> r.step, todo |-> t, at |-> r.at, amount |-> r.amount]
  BY SMTT(60), <1>1 DEF BatchRecord
<1>4. [r EXCEPT !.step = "debit", !.todo = t, !.at = d, !.amount = n] =
        [[[[r EXCEPT !.step = "debit"] EXCEPT !.todo = t] EXCEPT !.at = d] EXCEPT !.amount = n]
  BY Zenon
<1>5. [r EXCEPT !.step = "debit"] =
        [status |-> r.status, step |-> "debit", todo |-> r.todo, at |-> r.at, amount |-> r.amount]
  BY <1>1 DEF BatchRecord
<1> HIDE DEF t, n
<1>6. [[status |-> r.status, step |-> "debit", todo |-> r.todo, at |-> r.at, amount |-> r.amount]
            EXCEPT !.todo = t] =
        [status |-> r.status, step |-> "debit", todo |-> t, at |-> r.at, amount |-> r.amount]
  OBVIOUS
<1>7. [[status |-> r.status, step |-> "debit", todo |-> t, at |-> r.at, amount |-> r.amount] EXCEPT !.at = d] =
        [status |-> r.status, step |-> "debit", todo |-> t, at |-> d, amount |-> r.amount]
  OBVIOUS
<1>8. [[status |-> r.status, step |-> "debit", todo |-> t, at |-> d, amount |-> r.amount] EXCEPT !.amount = n] =
        [status |-> r.status, step |-> "debit", todo |-> t, at |-> d, amount |-> n]
  OBVIOUS
<1>9. [r EXCEPT !.step = "debit", !.todo = t, !.at = d, !.amount = n] =
        [status |-> r.status, step |-> "debit", todo |-> t, at |-> d, amount |-> n]
  BY <1>4, <1>5, <1>6, <1>7, <1>8
<1>10. d \in PaidDrivers
  BY <1>1 DEF BatchRecord
<1>11. n \in Int /\ MinPayoutMinor \in Int
  BY <1>10, BalanceIsInt, PayoutsAssumption DEF n
<1>12. CASE n < MinPayoutMinor
  <2>1. batch' = [batch EXCEPT ![b] = [r EXCEPT !.todo = t]]
    BY <1>2, <1>12 DEF t, n
  <2>2. batch' = [batch EXCEPT ![b] =
            [status |-> r.status, step |-> r.step, todo |-> t, at |-> r.at, amount |-> r.amount]]
    BY <1>3, <2>1
  <2> QED
    BY <2>2 DEF t
<1>13. CASE n >= MinPayoutMinor
  <2>0. ~(n < MinPayoutMinor)
    BY <1>11, <1>13
  <2>1. batch' = [batch EXCEPT ![b] = [r EXCEPT !.step = "debit", !.todo = t, !.at = d, !.amount = n]]
    BY <1>2, <2>0, Zenon DEF t, n
  <2>2. batch' = [batch EXCEPT ![b] =
            [status |-> r.status, step |-> "debit", todo |-> t, at |-> d, amount |-> n]]
    BY <1>9, <2>1
  <2> QED
    BY <1>13, <2>2 DEF t, n
<1> QED
  BY <1>11, <1>12, <1>13

\* The row after an item was inserted.
LEMMA InsertMoves ==
    ASSUME PayoutsTypeOK, NEW b \in Batches, InsertItem(b)
    PROVE  batch' = [batch EXCEPT ![b] =
               [status |-> batch[b].status, step |-> "each", todo |-> batch[b].todo,
                at |-> NoDriverPaid, amount |-> 0]]
<1> DEFINE r == batch[b]
<1>1. r \in BatchRecord
  BY DEF PayoutsTypeOK, BatchRecord
<1>2. [r EXCEPT !.step = "each", !.at = NoDriverPaid, !.amount = 0] =
        [[[r EXCEPT !.step = "each"] EXCEPT !.at = NoDriverPaid] EXCEPT !.amount = 0]
  BY Zenon
<1>3. [r EXCEPT !.step = "each"] =
        [status |-> r.status, step |-> "each", todo |-> r.todo, at |-> r.at, amount |-> r.amount]
  BY <1>1 DEF BatchRecord
<1>4. [[status |-> r.status, step |-> "each", todo |-> r.todo, at |-> r.at, amount |-> r.amount]
            EXCEPT !.at = NoDriverPaid] =
        [status |-> r.status, step |-> "each", todo |-> r.todo, at |-> NoDriverPaid, amount |-> r.amount]
  OBVIOUS
<1>5. [[status |-> r.status, step |-> "each", todo |-> r.todo, at |-> NoDriverPaid, amount |-> r.amount]
            EXCEPT !.amount = 0] =
        [status |-> r.status, step |-> "each", todo |-> r.todo, at |-> NoDriverPaid, amount |-> 0]
  OBVIOUS
<1>6. [r EXCEPT !.step = "each", !.at = NoDriverPaid, !.amount = 0] =
        [status |-> r.status, step |-> "each", todo |-> r.todo, at |-> NoDriverPaid, amount |-> 0]
  BY <1>2, <1>3, <1>4, <1>5
<1> QED
  BY <1>6 DEF InsertItem

\* Only a row of payout_batches changes.
LEMMA BatchOnly ==
    ASSUME PayoutsInv, NEW b \in Batches, NEW r \in BatchRecord, batch' = [batch EXCEPT ![b] = r],
           UNCHANGED <<earned, charged, banked, item, posted, givenBack, answering>>,
           overlapped' \subseteq PaidDrivers, AtOK(r), \A d \in PaidDrivers : DebitOK(r, b, d)
    PROVE  PayoutsInv'
<1>1. PayoutsTypeOK
  BY DEF PayoutsInv
<1>2. /\ batch' \in [Batches -> BatchRecord]
      /\ batch'[b] = r /\ \A c \in Batches \ {b} : batch'[c] = batch[c]
  BY <1>1, BatchMoves
<1>3. PayoutsTypeOK'
  BY <1>1, <1>2 DEF PayoutsTypeOK, BatchRecord
<1>4. \A c \in Batches : AtOK(batch'[c])
  <2> TAKE c \in Batches
  <2>1. CASE c = b
    BY <1>2, <2>1
  <2>2. CASE c # b
    <3>1. batch'[c] = batch[c] /\ AtOK(batch[c])
      BY <1>2, <2>2 DEF PayoutsInv
    <3> QED
      BY <3>1
  <2> QED
    BY <2>1, <2>2
<1>5. \A c \in Batches, d \in PaidDrivers : ItemOK(c, d)'
  BY ZenonT(90) DEF PayoutsInv, ItemOK
<1>6. ASSUME NEW c \in Batches, NEW d \in PaidDrivers
      PROVE  DebitOK(batch'[c], c, d)
  <2>1. CASE c = b
    BY <1>2, <2>1
  <2>2. CASE c # b
    <3>1. batch'[c] = batch[c] /\ DebitOK(batch[c], c, d)
      BY <1>2, <2>2 DEF PayoutsInv
    <3> QED
      BY <3>1
  <2> QED
    BY <2>1, <2>2
<1>7. \A c \in Batches, d \in PaidDrivers : DebitOK(batch[c], c, d)'
  BY <1>6 DEF DebitOK
<1>8. (\A c \in Batches : AtOK(batch[c]))'
  BY <1>4 DEF AtOK
<1> QED
  BY <1>3, <1>5, <1>7, <1>8 DEF PayoutsInv

LEMMA CreateBatchStep ==
    ASSUME PayoutsInv, NEW b \in Batches, CreateBatch(b)
    PROVE  PayoutsInv'
<1> DEFINE r == [status |-> "pending", step |-> "each", todo |-> banked,
                 at |-> batch[b].at, amount |-> batch[b].amount]
<1>1. PayoutsTypeOK
  BY DEF PayoutsInv
<1>2. batch' = [batch EXCEPT ![b] = r]
  BY <1>1, CreateMoves
<1>3. r \in BatchRecord /\ AtOK(r)
  BY <1>1 DEF PayoutsTypeOK, BatchRecord, AtOK
<1>4. ASSUME NEW d \in PaidDrivers
      PROVE  DebitOK(r, b, d)
  <2>1. batch[b].step = "idle" /\ DebitOK(batch[b], b, d)
    BY DEF CreateBatch, PayoutsInv
  <2>2. posted[b][d] = 0 /\ item[b][d].status = "none"
    BY <2>1 DEF DebitOK
  <2> QED
    BY <2>2 DEF DebitOK
<1>5. UNCHANGED <<earned, charged, banked, item, posted, givenBack, answering, overlapped>>
  BY DEF CreateBatch
<1>6. overlapped' \subseteq PaidDrivers
  BY <1>1, <1>5 DEF PayoutsTypeOK
<1> HIDE DEF r
<1> QED
  BY <1>2, <1>3, <1>4, <1>5, <1>6, BatchOnly

LEMMA PayNextStep ==
    ASSUME PayoutsInv, NEW b \in Batches, PayNext(b)
    PROVE  PayoutsInv'
<1>1. PayoutsTypeOK /\ batch[b] \in BatchRecord
  BY DEF PayoutsInv, PayoutsTypeOK, BatchRecord
<1>2. UNCHANGED <<earned, charged, banked, item, posted, givenBack, answering>> /\ batch[b].step = "each"
  BY DEF PayNext
<1>o. overlapped' \subseteq PaidDrivers
  BY <1>1 DEF PayNext, PayoutsTypeOK, BatchRecord
<1>3. PICK d \in batch[b].todo :
        \/ batch' = [batch EXCEPT ![b] =
               [status |-> batch[b].status, step |-> batch[b].step, todo |-> batch[b].todo \ {d},
                at |-> batch[b].at, amount |-> batch[b].amount]]
        \/ /\ Balance(d) >= MinPayoutMinor
           /\ batch' = [batch EXCEPT ![b] =
               [status |-> batch[b].status, step |-> "debit", todo |-> batch[b].todo \ {d},
                at |-> d, amount |-> Balance(d)]]
  BY <1>1, PayNextMoves
<1>4. d \in PaidDrivers /\ Balance(d) \in Int
  BY <1>1, BalanceIsInt DEF BatchRecord
<1>5. \A e \in PaidDrivers : DebitOK(batch[b], b, e)
  BY DEF PayoutsInv
<1>6. CASE batch' = [batch EXCEPT ![b] =
               [status |-> batch[b].status, step |-> batch[b].step, todo |-> batch[b].todo \ {d},
                at |-> batch[b].at, amount |-> batch[b].amount]]
  <2> DEFINE r == [status |-> batch[b].status, step |-> batch[b].step, todo |-> batch[b].todo \ {d},
                   at |-> batch[b].at, amount |-> batch[b].amount]
  <2>1. r \in BatchRecord /\ AtOK(r)
    BY <1>1, <1>2 DEF BatchRecord, AtOK
  <2>2. \A e \in PaidDrivers : DebitOK(r, b, e)
    BY <1>2, <1>5 DEF DebitOK
  <2> HIDE DEF r
  <2>3. batch' = [batch EXCEPT ![b] = r]
    BY <1>6 DEF r
  <2> QED
    BY <2>1, <2>2, <2>3, <1>2, <1>o, BatchOnly
<1>7. CASE /\ Balance(d) >= MinPayoutMinor
           /\ batch' = [batch EXCEPT ![b] =
               [status |-> batch[b].status, step |-> "debit", todo |-> batch[b].todo \ {d},
                at |-> d, amount |-> Balance(d)]]
  <2> DEFINE n == Balance(d)
             r == [status |-> batch[b].status, step |-> "debit", todo |-> batch[b].todo \ {d},
                   at |-> d, amount |-> n]
  <2>1. n \in Nat /\ n >= MinPayoutMinor
    BY <1>4, <1>7, PayoutsAssumption
  <2>2. batch' = [batch EXCEPT ![b] = r]
    BY <1>7
  <2> HIDE DEF n
  <2>3. r \in BatchRecord /\ AtOK(r)
    BY <1>1, <1>4, <2>1 DEF BatchRecord, AtOK
  <2>4. ASSUME NEW e \in PaidDrivers
        PROVE  DebitOK(r, b, e)
    <3>1. DebitOK(batch[b], b, e) /\ DebitOK(batch[b], b, d)
      BY <1>4, <1>5
    <3>2. posted[b][d] = 0 /\ item[b][d].status = "none"
      BY <1>2, <3>1 DEF DebitOK
    <3>3. posted[b][e] > 0 => item[b][e].status # "none"
      BY <1>2, <3>1 DEF DebitOK
    <3>4. e \in batch[b].todo => posted[b][e] = 0 /\ item[b][e].status = "none"
      BY <1>2, <3>1 DEF DebitOK
    <3> QED
      BY <3>2, <3>3, <3>4 DEF DebitOK
  <2> HIDE DEF r
  <2> QED
    BY <2>2, <2>3, <2>4, <1>2, <1>o, BatchOnly
<1> QED
  BY <1>3, <1>6, <1>7

\* The loop ends, or the call does; the file is made.
LEMMA BatchFieldStep ==
    ASSUME PayoutsInv, NEW b \in Batches, CloseBatch(b) \/ BatchStops(b) \/ ExportCSV(b)
    PROVE  PayoutsInv'
<1> DEFINE q == batch[b]
           Row(s, p) == [status |-> s, step |-> p, todo |-> q.todo, at |-> q.at, amount |-> q.amount]
<1>1. PayoutsTypeOK /\ q \in BatchRecord
  BY DEF PayoutsInv, PayoutsTypeOK, BatchRecord
<1>2. UNCHANGED <<earned, charged, banked, item, posted, givenBack, answering, overlapped>>
  BY DEF CloseBatch, BatchStops, ExportCSV
<1>o. overlapped' \subseteq PaidDrivers
  BY <1>1, <1>2 DEF PayoutsTypeOK
<1>3. \A d \in PaidDrivers : DebitOK(q, b, d)
  BY DEF PayoutsInv
<1>4. AtOK(q)
  BY DEF PayoutsInv
<1>5. CASE CloseBatch(b)
  <2>1. batch' = [batch EXCEPT ![b] = Row(q.status, "done")]
    BY <1>1, <1>5, BatchField DEF CloseBatch
  <2>2. Row(q.status, "done") \in BatchRecord /\ AtOK(Row(q.status, "done"))
    BY <1>1 DEF BatchRecord, AtOK
  <2>3. q.step = "each"
    BY <1>5 DEF CloseBatch
  <2>4. \A d \in PaidDrivers : DebitOK(Row(q.status, "done"), b, d)
    BY <1>3, <2>3 DEF DebitOK
  <2> QED
    BY <1>2, <1>o, <2>1, <2>2, <2>4, BatchOnly
<1>6. CASE BatchStops(b)
  <2>1. batch' = [batch EXCEPT ![b] = Row(q.status, "stopped")]
    BY <1>1, <1>6, BatchField DEF BatchStops
  <2>2. Row(q.status, "stopped") \in BatchRecord /\ AtOK(Row(q.status, "stopped"))
    BY <1>1 DEF BatchRecord, AtOK
  <2>3. q.step \in {"each", "debit", "insert"}
    BY <1>6 DEF BatchStops
  <2>4. \A d \in PaidDrivers : DebitOK(Row(q.status, "stopped"), b, d)
    BY <1>3, <2>3 DEF DebitOK
  <2> QED
    BY <1>2, <1>o, <2>1, <2>2, <2>4, BatchOnly
<1>7. CASE ExportCSV(b)
  <2>1. batch' = [batch EXCEPT ![b] = Row("exported", q.step)]
    BY <1>1, <1>7, BatchField DEF ExportCSV
  <2>2. Row("exported", q.step) \in BatchRecord
    BY <1>1 DEF BatchRecord
  <2>3. AtOK(Row("exported", q.step))
    BY <1>4 DEF AtOK
  <2>4. \A d \in PaidDrivers : DebitOK(Row("exported", q.step), b, d)
    BY <1>3 DEF DebitOK
  <2> QED
    BY <1>2, <1>o, <2>1, <2>2, <2>3, <2>4, BatchOnly
<1> QED
  BY <1>5, <1>6, <1>7

\* What a step leaves of the entry of one driver in one batch.
LEMMA EntryStays ==
    ASSUME PayoutsInv, NEW c \in Batches, NEW e \in PaidDrivers,
           item'[c][e] = item[c][e], posted'[c][e] = posted[c][e],
           answering'[c][e] = answering[c][e], <<c, e>> \in givenBack' <=> <<c, e>> \in givenBack
    PROVE  /\ ItemOK(c, e)'
           /\ batch'[c] = batch[c] => DebitOK(batch[c], c, e)'
<1>1. ItemOK(c, e) /\ DebitOK(batch[c], c, e)
  BY DEF PayoutsInv
<1>2. ItemOK(c, e)'
  BY <1>1 DEF ItemOK
<1>3. batch'[c] = batch[c] => DebitOK(batch[c], c, e)'
  BY <1>1 DEF DebitOK
<1> QED
  BY <1>2, <1>3

LEMMA DebitDriverStep ==
    ASSUME PayoutsInv, NEW b \in Batches, DebitDriver(b)
    PROVE  PayoutsInv'
<1>0. PICK q : q = batch[b]
  OBVIOUS
<1>r. PICK r : r = [status |-> q.status, step |-> "insert", todo |-> q.todo, at |-> q.at, amount |-> q.amount]
  OBVIOUS
<1>1. PayoutsTypeOK /\ q \in BatchRecord
  BY <1>0 DEF PayoutsInv, PayoutsTypeOK, BatchRecord
<1>2. q.step = "debit" /\ UNCHANGED <<earned, charged, banked, item, givenBack, answering, overlapped>>
  BY <1>0 DEF DebitDriver
<1>3. AtOK(q)
  BY <1>0 DEF PayoutsInv
<1>4. q.at \in PaidDrivers /\ q.amount \in Nat /\ q.amount >= MinPayoutMinor
  BY <1>1, <1>2, <1>3 DEF AtOK, BatchRecord
<1>5. /\ posted' \in [Batches -> [PaidDrivers -> Nat]]
      /\ posted'[b][q.at] = q.amount
      /\ \A c \in Batches, e \in PaidDrivers : c # b \/ e # q.at => posted'[c][e] = posted[c][e]
  <2> DEFINE d == q.at
             n == q.amount
  <2>1. posted' = [posted EXCEPT ![b][d] = n]
    BY <1>0 DEF DebitDriver
  <2>2. d \in PaidDrivers /\ n \in Nat /\ posted \in [Batches -> [PaidDrivers -> Nat]]
    BY <1>1, <1>4 DEF PayoutsTypeOK
  <2> HIDE DEF d, n
  <2>3. /\ posted' \in [Batches -> [PaidDrivers -> Nat]]
        /\ posted'[b][d] = n
        /\ \A c \in Batches, e \in PaidDrivers : c # b \/ e # d => posted'[c][e] = posted[c][e]
    BY <2>1, <2>2, EntryMoves
  <2> QED
    BY <2>3 DEF d, n
<1>6. batch' = [batch EXCEPT ![b] = r]
  BY <1>0, <1>r, <1>1, BatchField DEF DebitDriver
<1>7. r \in BatchRecord /\ AtOK(r)
  BY <1>1, <1>4, <1>r DEF BatchRecord, AtOK
<1>8. /\ batch' \in [Batches -> BatchRecord]
      /\ batch'[b] = r /\ \A c \in Batches \ {b} : batch'[c] = batch[c]
  BY <1>1, <1>6, <1>7, BatchMoves
<1>9. PayoutsTypeOK'
  BY <1>1, <1>2, <1>5, <1>8 DEF PayoutsTypeOK, BatchRecord
<1>10. ASSUME NEW c \in Batches
       PROVE  AtOK(batch[c])'
  <2>1. CASE c = b
    BY <1>7, <1>8, <2>1 DEF AtOK
  <2>2. CASE c # b
    <3>1. batch'[c] = batch[c] /\ AtOK(batch[c])
      BY <1>8, <2>2 DEF PayoutsInv
    <3> QED
      BY <3>1 DEF AtOK
  <2> QED
    BY <2>1, <2>2
<1>11. DebitOK(q, b, q.at) /\ ItemOK(b, q.at)
  BY <1>0, <1>4 DEF PayoutsInv
<1>12. item[b][q.at].status = "none" /\ q.at \notin q.todo
  BY <1>2, <1>11 DEF DebitOK
<1>13. ASSUME NEW c \in Batches, NEW e \in PaidDrivers
       PROVE  ItemOK(c, e)' /\ DebitOK(batch[c], c, e)'
  <2>1. CASE c = b /\ e = q.at
    <3>1. ItemOK(b, q.at)'
      BY <1>2, <1>11, <1>12 DEF ItemOK
    <3>2. DebitOK(r, b, q.at)'
      BY <1>r, <1>2, <1>5, <1>12 DEF DebitOK
    <3> QED
      BY <1>8, <2>1, <3>1, <3>2 DEF DebitOK
  <2>2. CASE c # b
    <3>1. posted'[c][e] = posted[c][e] /\ batch'[c] = batch[c]
      BY <1>5, <1>8, <2>2
    <3> QED
      BY <1>2, <3>1, EntryStays
  <2>3. CASE c = b /\ e # q.at
    <3>1. posted'[b][e] = posted[b][e]
      BY <1>5, <2>3
    <3>2. ItemOK(b, e)'
      BY <1>2, <3>1, EntryStays
    <3>3. DebitOK(q, b, e)
      BY <1>0 DEF PayoutsInv
    <3>4. DebitOK(r, b, e)'
      BY <1>r, <1>2, <2>3, <3>1, <3>3 DEF DebitOK
    <3> QED
      BY <1>8, <2>3, <3>2, <3>4 DEF DebitOK
  <2> QED
    BY <2>1, <2>2, <2>3
<1> QED
  BY <1>9, <1>10, <1>13 DEF PayoutsInv

LEMMA InsertItemStep ==
    ASSUME PayoutsInv, NEW b \in Batches, InsertItem(b)
    PROVE  PayoutsInv'
<1>0. PICK q : q = batch[b]
  OBVIOUS
<1>r. PICK r : r = [status |-> q.status, step |-> "each", todo |-> q.todo, at |-> NoDriverPaid, amount |-> 0]
  OBVIOUS
<1>w. PICK line : line = [status |-> "pending", amount |-> q.amount]
  OBVIOUS
<1>1. PayoutsTypeOK /\ q \in BatchRecord
  BY <1>0 DEF PayoutsInv, PayoutsTypeOK, BatchRecord
<1>2. q.step = "insert" /\ UNCHANGED <<earned, charged, banked, posted, givenBack, answering, overlapped>>
  BY <1>0 DEF InsertItem
<1>3. AtOK(q)
  BY <1>0 DEF PayoutsInv
<1>4. q.at \in PaidDrivers /\ q.amount \in Nat /\ q.amount >= MinPayoutMinor
  BY <1>1, <1>2, <1>3 DEF AtOK, BatchRecord
<1>5. /\ item' \in [Batches -> [PaidDrivers -> ItemRecord]]
      /\ item'[b][q.at] = line
      /\ \A c \in Batches, e \in PaidDrivers : c # b \/ e # q.at => item'[c][e] = item[c][e]
  <2> DEFINE d == q.at
  <2>1. item' = [item EXCEPT ![b][d] = line]
    BY <1>0, <1>w DEF InsertItem
  <2>2. d \in PaidDrivers /\ line \in ItemRecord /\ item \in [Batches -> [PaidDrivers -> ItemRecord]]
    BY <1>1, <1>4, <1>w DEF PayoutsTypeOK, ItemRecord
  <2> HIDE DEF d
  <2>3. /\ item' \in [Batches -> [PaidDrivers -> ItemRecord]]
        /\ item'[b][d] = line
        /\ \A c \in Batches, e \in PaidDrivers : c # b \/ e # d => item'[c][e] = item[c][e]
    BY <2>1, <2>2, EntryMoves
  <2> QED
    BY <2>3 DEF d
<1>6. batch' = [batch EXCEPT ![b] = r]
  BY <1>0, <1>r, <1>1, InsertMoves
<1>7. r \in BatchRecord /\ AtOK(r)
  BY <1>1, <1>r DEF BatchRecord, AtOK
<1>8. /\ batch' \in [Batches -> BatchRecord]
      /\ batch'[b] = r /\ \A c \in Batches \ {b} : batch'[c] = batch[c]
  BY <1>1, <1>6, <1>7, BatchMoves
<1>9. PayoutsTypeOK'
  BY <1>1, <1>2, <1>5, <1>8 DEF PayoutsTypeOK, BatchRecord, ItemRecord
<1>10. ASSUME NEW c \in Batches
       PROVE  AtOK(batch[c])'
  <2>1. CASE c = b
    BY <1>7, <1>8, <2>1 DEF AtOK
  <2>2. CASE c # b
    <3>1. batch'[c] = batch[c] /\ AtOK(batch[c])
      BY <1>8, <2>2 DEF PayoutsInv
    <3> QED
      BY <3>1 DEF AtOK
  <2> QED
    BY <2>1, <2>2
<1>11. DebitOK(q, b, q.at) /\ ItemOK(b, q.at)
  BY <1>0, <1>4 DEF PayoutsInv
<1>12. item[b][q.at].status = "none" /\ q.at \notin q.todo /\ posted[b][q.at] = q.amount
  BY <1>2, <1>11 DEF DebitOK
<1>13. ASSUME NEW c \in Batches, NEW e \in PaidDrivers
       PROVE  ItemOK(c, e)' /\ DebitOK(batch[c], c, e)'
  <2>1. CASE c = b /\ e = q.at
    <3>1. ItemOK(b, q.at)'
      BY <1>w, <1>2, <1>4, <1>5, <1>11, <1>12 DEF ItemOK
    <3>2. DebitOK(r, b, q.at)'
      BY <1>r, <1>w, <1>2, <1>5, <1>12 DEF DebitOK
    <3> QED
      BY <1>8, <2>1, <3>1, <3>2 DEF DebitOK
  <2>2. CASE c # b
    <3>1. item'[c][e] = item[c][e] /\ batch'[c] = batch[c]
      BY <1>5, <1>8, <2>2
    <3> QED
      BY <1>2, <3>1, EntryStays
  <2>3. CASE c = b /\ e # q.at
    <3>1. item'[b][e] = item[b][e]
      BY <1>5, <2>3
    <3>2. ItemOK(b, e)'
      BY <1>2, <3>1, EntryStays
    <3>3. DebitOK(q, b, e)
      BY <1>0 DEF PayoutsInv
    <3>4. DebitOK(r, b, e)'
      <4>1. posted[b][e] \in Nat
        BY <1>1 DEF PayoutsTypeOK
      <4> QED
        BY <1>r, <1>2, <2>3, <3>1, <3>3, <4>1 DEF DebitOK
    <3> QED
      BY <1>8, <2>3, <3>2, <3>4 DEF DebitOK
  <2> QED
    BY <2>1, <2>2, <2>3
<1> QED
  BY <1>9, <1>10, <1>13 DEF PayoutsInv

\* The bank's answer is written on a pending item.
LEMMA SettleItemStep ==
    ASSUME PayoutsInv, NEW b \in Batches, NEW d \in PaidDrivers, NEW s \in {"paid", "failed"},
           SettleItem(b, d, s)
    PROVE  PayoutsInv'
<1> DEFINE next == IF s = "failed" THEN "reverse" ELSE "close"
           line == [status |-> s, amount |-> item[b][d].amount]
<1>1. PayoutsTypeOK
  BY DEF PayoutsInv
<1>2. item[b][d].status = "pending" /\ UNCHANGED <<earned, charged, banked, batch, posted, givenBack, overlapped>>
  BY DEF SettleItem
<1>3. item[b][d] \in ItemRecord /\ line \in ItemRecord /\ item \in [Batches -> [PaidDrivers -> ItemRecord]]
  BY <1>1 DEF PayoutsTypeOK, ItemRecord
<1>4. item' = [item EXCEPT ![b][d] = line]
  <2>1. [item[b][d] EXCEPT !.status = s] = line
    BY <1>3 DEF ItemRecord
  <2>2. item' = [item EXCEPT ![b] = [item[b] EXCEPT ![d] = [item[b][d] EXCEPT !.status = s]]]
    BY DEF SettleItem
  <2> QED
    BY <2>1, <2>2
<1> HIDE DEF line
<1>5. /\ item' \in [Batches -> [PaidDrivers -> ItemRecord]]
      /\ item'[b][d] = line
      /\ \A c \in Batches, e \in PaidDrivers : c # b \/ e # d => item'[c][e] = item[c][e]
  BY <1>3, <1>4, EntryMoves
<1>6. answering' = [answering EXCEPT ![b][d] = next]
  BY DEF SettleItem
<1>7. next \in {"no", "reverse", "close", "stopped"}
  OBVIOUS
<1> HIDE DEF next
<1>8. /\ answering' \in [Batches -> [PaidDrivers -> {"no", "reverse", "close", "stopped"}]]
      /\ answering'[b][d] = next
      /\ \A c \in Batches, e \in PaidDrivers : c # b \/ e # d => answering'[c][e] = answering[c][e]
  <2>1. answering \in [Batches -> [PaidDrivers -> {"no", "reverse", "close", "stopped"}]]
    BY <1>1 DEF PayoutsTypeOK
  <2> QED
    BY <1>6, <1>7, <2>1, EntryMoves
<1>9. PayoutsTypeOK'
  BY <1>1, <1>2, <1>5, <1>8 DEF PayoutsTypeOK, ItemRecord
<1>10. \A c \in Batches : AtOK(batch[c])'
  BY <1>2 DEF PayoutsInv, AtOK
<1>11. ItemOK(b, d) /\ DebitOK(batch[b], b, d)
  BY DEF PayoutsInv
<1>12. ItemOK(b, d)'
  BY <1>2, <1>5, <1>8, <1>11 DEF ItemOK, line, next
<1>13. DebitOK(batch[b], b, d)'
  BY <1>2, <1>5, <1>11 DEF DebitOK, line
<1>14. ASSUME NEW c \in Batches, NEW e \in PaidDrivers
       PROVE  ItemOK(c, e)' /\ DebitOK(batch[c], c, e)'
  <2>1. CASE c = b /\ e = d
    BY <1>12, <1>13, <2>1
  <2>2. CASE c # b \/ e # d
    <3>1. item'[c][e] = item[c][e] /\ answering'[c][e] = answering[c][e]
      BY <1>5, <1>8, <2>2
    <3> QED
      BY <1>2, <3>1, EntryStays
  <2> QED
    BY <2>1, <2>2
<1> QED
  BY <1>9, <1>10, <1>14 DEF PayoutsInv

\* The rest of the answer: the money goes back, the batch closes, or the call ends.
LEMMA AnswerStep ==
    ASSUME PayoutsInv, NEW b \in Batches, NEW d \in PaidDrivers, NEW v \in {"no", "close", "stopped"},
           answering' = [answering EXCEPT ![b][d] = v], UNCHANGED <<earned, charged, banked, item, posted, overlapped>>,
           batch' \in [Batches -> BatchRecord],
           \A c \in Batches : /\ batch'[c].step = batch[c].step /\ batch'[c].todo = batch[c].todo
                              /\ batch'[c].at = batch[c].at /\ batch'[c].amount = batch[c].amount,
           givenBack' \subseteq ItemIds,
           \A c \in Batches, e \in PaidDrivers : <<c, e>> \in givenBack => <<c, e>> \in givenBack',
           \A c \in Batches, e \in PaidDrivers :
               <<c, e>> \in givenBack' => <<c, e>> \in givenBack \/ (c = b /\ e = d /\ answering[b][d] = "reverse"),
           v # "stopped" /\ item[b][d].status = "failed" => <<b, d>> \in givenBack',
           answering[b][d] \in {"reverse", "close"}
    PROVE  PayoutsInv'
<1>1. PayoutsTypeOK
  BY DEF PayoutsInv
<1>2. /\ answering' \in [Batches -> [PaidDrivers -> {"no", "reverse", "close", "stopped"}]]
      /\ answering'[b][d] = v
      /\ \A c \in Batches, e \in PaidDrivers : c # b \/ e # d => answering'[c][e] = answering[c][e]
  <2>1. answering \in [Batches -> [PaidDrivers -> {"no", "reverse", "close", "stopped"}]]
    BY <1>1 DEF PayoutsTypeOK
  <2>2. v \in {"no", "reverse", "close", "stopped"}
    OBVIOUS
  <2> QED
    BY <2>1, <2>2, EntryMoves
<1>3. PayoutsTypeOK'
  BY <1>1, <1>2 DEF PayoutsTypeOK, BatchRecord
<1>4. \A c \in Batches : AtOK(batch[c])'
  BY DEF PayoutsInv, AtOK
<1>5. ASSUME NEW c \in Batches, NEW e \in PaidDrivers
      PROVE  DebitOK(batch[c], c, e)'
  <2>1. DebitOK(batch[c], c, e)
    BY DEF PayoutsInv
  <2> QED
    BY <2>1 DEF DebitOK
<1>6. ASSUME NEW c \in Batches, NEW e \in PaidDrivers
      PROVE  ItemOK(c, e)'
  <2>1. ItemOK(c, e)
    BY DEF PayoutsInv
  <2>2. CASE c = b /\ e = d
    BY <1>2, <2>1, <2>2 DEF ItemOK
  <2>3. CASE c # b \/ e # d
    <3>1. answering'[c][e] = answering[c][e] /\ (<<c, e>> \in givenBack' <=> <<c, e>> \in givenBack)
      BY <1>2, <2>3
    <3> QED
      BY <3>1, EntryStays
  <2> QED
    BY <2>2, <2>3
<1> QED
  BY <1>3, <1>4, <1>5, <1>6 DEF PayoutsInv

\* The batch keeps its place when CloseIfSettled writes its status.
LEMMA CloseMoves ==
    ASSUME PayoutsTypeOK, NEW b \in Batches, NEW d \in PaidDrivers, CloseIfSettled(b, d)
    PROVE  /\ batch' \in [Batches -> BatchRecord]
           /\ \A c \in Batches : /\ batch'[c].step = batch[c].step /\ batch'[c].todo = batch[c].todo
                                 /\ batch'[c].at = batch[c].at /\ batch'[c].amount = batch[c].amount
<1> DEFINE q == batch[b]
           s == IF HasPending(b) THEN q.status ELSE "completed"
           r == [status |-> s, step |-> q.step, todo |-> q.todo, at |-> q.at, amount |-> q.amount]
<1>1. q \in BatchRecord /\ r \in BatchRecord
  BY DEF PayoutsTypeOK, BatchRecord
<1>2. batch' = [batch EXCEPT ![b].status = s]
  BY DEF CloseIfSettled
<1> HIDE DEF s
<1>3. batch' = [batch EXCEPT ![b] = r]
  BY <1>2, BatchField
<1> HIDE DEF r
<1>4. /\ batch' \in [Batches -> BatchRecord]
      /\ batch'[b] = r /\ \A c \in Batches \ {b} : batch'[c] = batch[c]
  BY <1>1, <1>3, BatchMoves
<1>5. r.step = q.step /\ r.todo = q.todo /\ r.at = q.at /\ r.amount = q.amount
  BY DEF r
<1> QED
  BY <1>4, <1>5

LEMMA RestOfAnswerStep ==
    ASSUME PayoutsInv, NEW b \in Batches, NEW d \in PaidDrivers,
           ReverseItem(b, d) \/ CloseIfSettled(b, d) \/ SettleStops(b, d)
    PROVE  PayoutsInv'
<1>1. PayoutsTypeOK /\ batch \in [Batches -> BatchRecord] /\ givenBack \subseteq ItemIds
  BY DEF PayoutsInv, PayoutsTypeOK, BatchRecord
<1>2. CASE ReverseItem(b, d)
  <2>1. /\ answering[b][d] = "reverse" /\ answering' = [answering EXCEPT ![b][d] = "close"]
        /\ givenBack' = givenBack \cup {<<b, d>>} /\ UNCHANGED <<earned, charged, banked, batch, item, posted, overlapped>>
    BY <1>2 DEF ReverseItem
  <2>2. givenBack' \subseteq ItemIds /\ <<b, d>> \in givenBack'
    BY <1>1, <2>1 DEF ItemIds
  <2>3. /\ \A c \in Batches, e \in PaidDrivers : <<c, e>> \in givenBack => <<c, e>> \in givenBack'
        /\ \A c \in Batches, e \in PaidDrivers : <<c, e>> \in givenBack' =>
               <<c, e>> \in givenBack \/ (c = b /\ e = d /\ answering[b][d] = "reverse")
    BY <2>1
  <2> QED
    BY <1>1, <2>1, <2>2, <2>3, AnswerStep
<1>3. CASE CloseIfSettled(b, d)
  <2>1. /\ answering[b][d] = "close" /\ answering' = [answering EXCEPT ![b][d] = "no"]
        /\ UNCHANGED <<earned, charged, banked, item, posted, givenBack, overlapped>>
    BY <1>3 DEF CloseIfSettled
  <2>2. /\ batch' \in [Batches -> BatchRecord]
        /\ \A c \in Batches : /\ batch'[c].step = batch[c].step /\ batch'[c].todo = batch[c].todo
                              /\ batch'[c].at = batch[c].at /\ batch'[c].amount = batch[c].amount
    BY <1>1, <1>3, CloseMoves
  <2>3. givenBack' \subseteq ItemIds /\ (item[b][d].status = "failed" => <<b, d>> \in givenBack')
    BY <1>1, <2>1 DEF PayoutsInv, ItemOK
  <2> QED
    BY <2>1, <2>2, <2>3, AnswerStep
<1>4. CASE SettleStops(b, d)
  <2>1. /\ answering[b][d] \in {"reverse", "close"} /\ answering' = [answering EXCEPT ![b][d] = "stopped"]
        /\ UNCHANGED <<earned, charged, banked, batch, item, posted, givenBack, overlapped>>
    BY <1>4 DEF SettleStops
  <2>2. batch' \in [Batches -> BatchRecord] /\ givenBack' \subseteq ItemIds
    BY <1>1, <2>1
  <2> QED
    BY <2>1, <2>2, AnswerStep
<1> QED
  BY <1>2, <1>3, <1>4

\* A ride pays the driver or debits him, or he gives his bank account: no batch
\* is touched.
WalletMoves(d) ==
    \/ SetBankAccount(d)
    \/ \E minor \in 1 .. MaxEarned : Earn(d, minor)
    \/ \E minor \in 1 .. MaxCharged : ChargeCommission(d, minor)

LEMMA WalletStep ==
    ASSUME PayoutsInv, NEW d \in PaidDrivers, WalletMoves(d)
    PROVE  PayoutsInv'
<1>1. PayoutsTypeOK
  BY DEF PayoutsInv
<1>2. UNCHANGED <<batch, item, posted, givenBack, answering, overlapped>>
  BY DEF WalletMoves, SetBankAccount, Earn, ChargeCommission
<1>3. /\ earned \in [PaidDrivers -> 0 .. MaxEarned] /\ charged \in [PaidDrivers -> 0 .. MaxCharged]
      /\ banked \subseteq PaidDrivers
  BY <1>1 DEF PayoutsTypeOK
<1>4. /\ earned' \in [PaidDrivers -> 0 .. MaxEarned] /\ charged' \in [PaidDrivers -> 0 .. MaxCharged]
      /\ banked' \subseteq PaidDrivers
  <2>1. CASE SetBankAccount(d)
    BY <1>3, <2>1 DEF SetBankAccount
  <2>2. ASSUME NEW minor \in 1 .. MaxEarned, Earn(d, minor)
        PROVE  earned' \in [PaidDrivers -> 0 .. MaxEarned] /\ UNCHANGED <<charged, banked>>
    <3>1. earned[d] + minor \in 0 .. MaxEarned
      BY <1>3, <2>2, PayoutsAssumption DEF Earn
    <3> QED
      BY <1>3, <2>2, <3>1 DEF Earn
  <2>3. ASSUME NEW minor \in 1 .. MaxCharged, ChargeCommission(d, minor)
        PROVE  charged' \in [PaidDrivers -> 0 .. MaxCharged] /\ UNCHANGED <<earned, banked>>
    <3>1. charged[d] + minor \in 0 .. MaxCharged
      BY <1>3, <2>3, PayoutsAssumption DEF ChargeCommission
    <3> QED
      BY <1>3, <2>3, <3>1 DEF ChargeCommission
  <2> QED
    BY <1>3, <2>1, <2>2, <2>3 DEF WalletMoves
<1>5. PayoutsTypeOK'
  BY <1>1, <1>2, <1>4 DEF PayoutsTypeOK
<1>6. \A b \in Batches : AtOK(batch[b])'
  BY <1>2 DEF PayoutsInv, AtOK
<1>7. \A b \in Batches, e \in PaidDrivers : ItemOK(b, e)' /\ DebitOK(batch[b], b, e)'
  BY <1>2, EntryStays
<1> QED
  BY <1>5, <1>6, <1>7 DEF PayoutsInv

LEMMA PayoutsStarts ==
    PayoutsInit => PayoutsInv
<1> SUFFICES ASSUME PayoutsInit PROVE PayoutsInv
  OBVIOUS
<1>1. PayoutsTypeOK
  BY PayoutsAssumption DEF PayoutsInit, PayoutsTypeOK
<1>2. \A b \in Batches : AtOK(batch[b])
  BY DEF PayoutsInit, AtOK
<1>3. \A b \in Batches, d \in PaidDrivers : ItemOK(b, d) /\ DebitOK(batch[b], b, d)
  BY DEF PayoutsInit, ItemOK, DebitOK
<1> QED
  BY <1>1, <1>2, <1>3 DEF PayoutsInv

LEMMA PayoutsStep ==
    PayoutsInv /\ [PayoutsNext]_payoutVars => PayoutsInv'
<1> SUFFICES ASSUME PayoutsInv, [PayoutsNext]_payoutVars PROVE PayoutsInv'
  OBVIOUS
<1>1. CASE UNCHANGED payoutVars
  BY <1>1 DEF payoutVars, PayoutsInv, PayoutsTypeOK, AtOK, ItemOK, DebitOK
<1>2. CASE PayoutsNext
  <2>1. ASSUME NEW d \in PaidDrivers, WalletMoves(d)
        PROVE  PayoutsInv'
    BY <2>1, WalletStep
  <2>2. ASSUME NEW b \in Batches, CreateBatch(b) PROVE PayoutsInv'
    BY <2>2, CreateBatchStep
  <2>3. ASSUME NEW b \in Batches, PayNext(b) PROVE PayoutsInv'
    BY <2>3, PayNextStep
  <2>4. ASSUME NEW b \in Batches, DebitDriver(b) PROVE PayoutsInv'
    BY <2>4, DebitDriverStep
  <2>5. ASSUME NEW b \in Batches, InsertItem(b) PROVE PayoutsInv'
    BY <2>5, InsertItemStep
  <2>6. ASSUME NEW b \in Batches, CloseBatch(b) \/ BatchStops(b) \/ ExportCSV(b) PROVE PayoutsInv'
    BY <2>6, BatchFieldStep
  <2>7. ASSUME NEW b \in Batches, NEW d \in PaidDrivers, NEW s \in {"paid", "failed"}, SettleItem(b, d, s)
        PROVE  PayoutsInv'
    BY <2>7, SettleItemStep
  <2>8. ASSUME NEW b \in Batches, NEW d \in PaidDrivers,
               ReverseItem(b, d) \/ CloseIfSettled(b, d) \/ SettleStops(b, d)
        PROVE  PayoutsInv'
    BY <2>8, RestOfAnswerStep
  <2> QED
    BY <1>2, <2>1, <2>2, <2>3, <2>4, <2>5, <2>6, <2>7, <2>8, Zenon DEF PayoutsNext, WalletMoves
<1> QED
  BY <1>1, <1>2

-----------------------------------------------------------------------------
\* A batch is about to debit the driver; the amount was his balance when it read
\* it.  While one batch at a time does so, it is still in what he earned.
Due(b, d) == batch[b].step = "debit" /\ batch[b].at = d

Covered(d) ==
    d \notin overlapped =>
        /\ PaidOut(d) <= earned[d]
        /\ \A b \in Batches : Due(b, d) => PaidOut(d) + batch[b].amount <= earned[d]
        /\ \A b, c \in Batches : Due(b, d) /\ Due(c, d) => b = c

\* Steps that read no balance and debit nothing.
LEMMA CoveredStays ==
    ASSUME PayoutsInv, PayoutsInv', NEW d \in PaidDrivers, Covered(d),
           d \in overlapped => d \in overlapped',
           earned[d] <= earned'[d], PaidOut(d)' <= PaidOut(d),
           \A b \in Batches : Due(b, d)' => Due(b, d) /\ batch'[b].amount = batch[b].amount
    PROVE  Covered(d)'
<1>1. /\ PaidOut(d) \in Nat /\ earned[d] \in Nat /\ \A b \in Batches : batch[b].amount \in Nat
      /\ batch \in [Batches -> BatchRecord]
  <2>1. PayoutsTypeOK /\ batch \in [Batches -> BatchRecord]
    BY DEF PayoutsInv, PayoutsTypeOK, BatchRecord
  <2> QED
    BY <2>1, PaidOutIsNat DEF BatchRecord
<1>2. PaidOut(d)' \in Nat /\ earned'[d] \in Nat
  <2>1. PayoutsTypeOK'
    BY DEF PayoutsInv
  <2>2. posted' \in [Batches -> [PaidDrivers -> Nat]]
    BY <2>1 DEF PayoutsTypeOK
  <2>3. Unreturned(posted', givenBack', d) \in Nat
    BY <2>2, UnreturnedIsNat
  <2>4. earned'[d] \in Nat
    BY <2>1, PayoutsAssumption DEF PayoutsTypeOK
  <2> QED
    BY <2>3, <2>4, PaidOutIsSumThen
<1> SUFFICES ASSUME d \notin overlapped'
             PROVE  /\ PaidOut(d)' <= earned'[d]
                    /\ \A b \in Batches : Due(b, d)' => PaidOut(d)' + batch'[b].amount <= earned'[d]
                    /\ \A b, c \in Batches : Due(b, d)' /\ Due(c, d)' => b = c
  BY Zenon DEF Covered
<1>3. PICK n, m : n = PaidOut(d) /\ m = PaidOut(d)'
  OBVIOUS
<1>4. /\ n <= earned[d]
      /\ \A b \in Batches : Due(b, d) => n + batch[b].amount <= earned[d]
      /\ \A b, c \in Batches : Due(b, d) /\ Due(c, d) => b = c
  BY <1>3 DEF Covered
<1>5. m <= earned'[d]
  BY <1>1, <1>2, <1>3, <1>4
<1>6. ASSUME NEW b \in Batches, Due(b, d)'
      PROVE  m + batch'[b].amount <= earned'[d]
  <2>1. Due(b, d) /\ batch'[b].amount = batch[b].amount
    BY <1>6
  <2>2. n + batch[b].amount <= earned[d] /\ batch[b].amount \in Nat
    BY <1>1, <1>4, <2>1
  <2> QED
    BY <1>1, <1>2, <1>3, <2>1, <2>2
<1>7. \A b, c \in Batches : Due(b, d)' /\ Due(c, d)' => b = c
  BY <1>4
<1> QED
  BY <1>3, <1>5, <1>6, <1>7

\* Of the rows of payout_batches, only that of b changes.
LEMMA OneRowMoves ==
    ASSUME PayoutsTypeOK, NEW b \in Batches, NEW r, batch' = [batch EXCEPT ![b] = r]
    PROVE  batch'[b] = r /\ \A c \in Batches \ {b} : batch'[c] = batch[c]
  BY DEF PayoutsTypeOK

LEMMA PayNextCovers ==
    ASSUME PayoutsInv, PayoutsInv', NEW b \in Batches, PayNext(b), NEW d \in PaidDrivers, Covered(d)
    PROVE  Covered(d)'
<1>1. PayoutsTypeOK
  BY DEF PayoutsInv
<1>2. batch[b].step = "each" /\ UNCHANGED <<earned, posted, givenBack>> /\ overlapped \subseteq overlapped'
  BY DEF PayNext
<1>3. PaidOut(d) \in Nat /\ earned[d] \in Nat /\ Balance(d) \in Int /\ PaidOut(d) + Balance(d) <= earned[d]
  BY <1>1, PaidOutIsNat, BalanceIsInt
<1>4. PaidOut(d)' = PaidOut(d)
  BY <1>2, PaidOutStays
<1>5. \A c \in Batches \ {b} : batch'[c] = batch[c]
  BY <1>1 DEF PayNext, PayoutsTypeOK
<1>6. CASE ~Due(b, d)'
  <2>1. \A c \in Batches : Due(c, d)' => Due(c, d) /\ batch'[c].amount = batch[c].amount
    BY <1>5, <1>6 DEF Due
  <2>2. earned[d] <= earned'[d] /\ PaidOut(d)' <= PaidOut(d)
    BY <1>2, <1>3, <1>4
  <2> QED
    BY <1>2, <2>1, <2>2, CoveredStays
<1>7. CASE Due(b, d)'
  <2>1. PICK e \in batch[b].todo :
          \/ batch' = [batch EXCEPT ![b] =
                 [status |-> batch[b].status, step |-> batch[b].step, todo |-> batch[b].todo \ {e},
                  at |-> batch[b].at, amount |-> batch[b].amount]]
          \/ /\ Balance(e) >= MinPayoutMinor
             /\ batch' = [batch EXCEPT ![b] =
                 [status |-> batch[b].status, step |-> "debit", todo |-> batch[b].todo \ {e},
                  at |-> e, amount |-> Balance(e)]]
    BY <1>1, PayNextMoves
  <2>2. ~(batch' = [batch EXCEPT ![b] =
                 [status |-> batch[b].status, step |-> batch[b].step, todo |-> batch[b].todo \ {e},
                  at |-> batch[b].at, amount |-> batch[b].amount]])
    <3> DEFINE r == [status |-> batch[b].status, step |-> batch[b].step, todo |-> batch[b].todo \ {e},
                     at |-> batch[b].at, amount |-> batch[b].amount]
    <3> SUFFICES ASSUME batch' = [batch EXCEPT ![b] = r] PROVE FALSE
      OBVIOUS
    <3>1. r.step = "each"
      BY <1>2
    <3> HIDE DEF r
    <3>2. batch'[b] = r
      BY <1>1, OneRowMoves
    <3> QED
      BY <1>7, <3>1, <3>2 DEF Due
  <2>3. batch'[b] = [status |-> batch[b].status, step |-> "debit", todo |-> batch[b].todo \ {e},
                     at |-> e, amount |-> Balance(e)]
    <3> DEFINE r == [status |-> batch[b].status, step |-> "debit", todo |-> batch[b].todo \ {e},
                     at |-> e, amount |-> Balance(e)]
    <3>1. batch' = [batch EXCEPT ![b] = r]
      BY <2>1, <2>2
    <3> HIDE DEF r
    <3>2. batch'[b] = r
      BY <1>1, <3>1, OneRowMoves
    <3> QED
      BY <3>2 DEF r
  <2>4. e = d /\ batch'[b].amount = Balance(d)
    <3>1. batch'[b].at = e /\ batch'[b].amount = Balance(e)
      BY <2>3
    <3> QED
      BY <1>7, <3>1 DEF Due
  <2>5. d \in batch[b].todo
    BY <2>1, <2>4
  <2> SUFFICES ASSUME d \notin overlapped'
               PROVE  /\ PaidOut(d)' <= earned'[d]
                      /\ \A c \in Batches : Due(c, d)' => PaidOut(d)' + batch'[c].amount <= earned'[d]
                      /\ \A c, a \in Batches : Due(c, d)' /\ Due(a, d)' => c = a
    BY Zenon DEF Covered
  <2>6. Debiting(d) = {}
    <3>1. PICK f \in batch[b].todo :
            /\ batch' = [batch EXCEPT ![b] =
                 IF Balance(f) < MinPayoutMinor
                 THEN [@ EXCEPT !.todo = batch[b].todo \ {f}]
                 ELSE [@ EXCEPT !.step = "debit", !.todo = batch[b].todo \ {f}, !.at = f, !.amount = Balance(f)]]
            /\ overlapped' = IF Debiting(f) = {} THEN overlapped ELSE overlapped \cup {f}
      BY ZenonT(90) DEF PayNext
    <3>2. f = d
      <4>1. batch'[b].todo = batch[b].todo \ {d}
        BY <2>3, <2>4
      <4>2. batch[b] \in BatchRecord
        BY <1>1 DEF PayoutsTypeOK, BatchRecord
      <4> DEFINE t == batch[b].todo \ {f}
      <4>3. batch'[b] = IF Balance(f) < MinPayoutMinor
                 THEN [batch[b] EXCEPT !.todo = t]
                 ELSE [batch[b] EXCEPT !.step = "debit", !.todo = t, !.at = f, !.amount = Balance(f)]
        BY <1>1, <3>1, ZenonT(90) DEF PayoutsTypeOK
      <4>4. batch'[b].todo = t
        BY <4>2, <4>3, ZenonT(90) DEF BatchRecord
      <4> QED
        BY <2>5, <4>1, <4>4
    <3> QED
      BY <3>1, <3>2
  <2>7. \A c \in Batches : ~Due(c, d)
    BY <2>6, Zenon DEF Debiting, Due
  <2>8. \A c \in Batches : Due(c, d)' => c = b
    BY <1>5, <2>7 DEF Due
  <2>9. PICK n, m : n = PaidOut(d) /\ m = Balance(d)
    OBVIOUS
  <2>10. n <= earned[d]
    BY <1>2, <2>9 DEF Covered
  <2> QED
    BY <1>2, <1>3, <1>4, <2>4, <2>8, <2>9, <2>10
<1> QED
  BY <1>6, <1>7

LEMMA DebitDriverCovers ==
    ASSUME PayoutsInv, PayoutsInv', NEW b \in Batches, DebitDriver(b), NEW d \in PaidDrivers, Covered(d)
    PROVE  Covered(d)'
<1>0. PICK q : q = batch[b]
  OBVIOUS
<1>1. PayoutsTypeOK /\ PayoutsTypeOK' /\ q \in BatchRecord
  BY <1>0 DEF PayoutsInv, PayoutsTypeOK, BatchRecord
<1>2. q.step = "debit" /\ UNCHANGED <<earned, givenBack, overlapped>>
  BY <1>0 DEF DebitDriver
<1>3. q.at \in PaidDrivers /\ q.amount \in Nat
  BY <1>0, <1>1, <1>2 DEF PayoutsInv, AtOK, BatchRecord
<1>4. PaidOut(d) \in Nat /\ earned[d] \in Nat
  BY <1>1, PaidOutIsNat
<1>5. /\ posted' \in [Batches -> [PaidDrivers -> Nat]]
      /\ posted'[b][q.at] = q.amount
      /\ \A c \in Batches, e \in PaidDrivers : c # b \/ e # q.at => posted'[c][e] = posted[c][e]
  <2> DEFINE e == q.at
             n == q.amount
  <2>1. posted' = [posted EXCEPT ![b][e] = n]
    BY <1>0 DEF DebitDriver
  <2>2. e \in PaidDrivers /\ n \in Nat /\ posted \in [Batches -> [PaidDrivers -> Nat]]
    BY <1>1, <1>3 DEF PayoutsTypeOK
  <2> HIDE DEF e, n
  <2>3. /\ posted' \in [Batches -> [PaidDrivers -> Nat]]
        /\ posted'[b][e] = n
        /\ \A c \in Batches, f \in PaidDrivers : c # b \/ f # e => posted'[c][f] = posted[c][f]
    BY <2>1, <2>2, EntryMoves
  <2> QED
    BY <2>3 DEF e, n
<1>6. batch'[b].step = "insert" /\ \A c \in Batches \ {b} : batch'[c] = batch[c]
  <2> DEFINE r == [status |-> q.status, step |-> "insert", todo |-> q.todo, at |-> q.at, amount |-> q.amount]
  <2>1. batch' = [batch EXCEPT ![b] = r]
    BY <1>0, <1>1, BatchField DEF DebitDriver
  <2>2. r.step = "insert"
    OBVIOUS
  <2> HIDE DEF r
  <2> QED
    BY <1>1, <2>1, <2>2, OneRowMoves
<1>7. \A c \in Batches : Due(c, d)' => c # b /\ Due(c, d) /\ batch'[c].amount = batch[c].amount
  BY <1>6 DEF Due
<1>8. CASE q.at # d
  <2>1. \A c \in Batches : posted'[c][d] = posted[c][d]
    BY <1>5, <1>8
  <2>2. PaidOut(d)' = PaidOut(d)
    BY <1>2, <2>1, PaidOutStays
  <2>3. earned[d] <= earned'[d] /\ PaidOut(d)' <= PaidOut(d)
    BY <1>2, <1>4, <2>2
  <2> QED
    BY <1>2, <1>7, <2>3, CoveredStays
<1>9. CASE q.at = d
  <2>1. posted[b][d] = 0 /\ <<b, d>> \notin givenBack
    <3>1. ItemOK(b, d) /\ DebitOK(q, b, d)
      BY <1>0 DEF PayoutsInv
    <3>2. posted[b][d] = 0 /\ item[b][d].status = "none"
      BY <1>2, <1>9, <3>1 DEF DebitOK
    <3> QED
      BY <3>1, <3>2 DEF ItemOK
  <2>2. PaidOut(d)' = PaidOut(d) + posted'[b][d]
    <3>1. \A c \in Batches \ {b} : posted'[c][d] = posted[c][d]
      BY <1>5
    <3>2. givenBack' = givenBack
      BY <1>2
    <3> QED
      BY <1>1, <1>5, <2>1, <3>1, <3>2, PaidOutMoves
  <2>3. posted'[b][d] = q.amount
    BY <1>5, <1>9
  <2> SUFFICES ASSUME d \notin overlapped'
               PROVE  /\ PaidOut(d)' <= earned'[d]
                      /\ \A c \in Batches : ~Due(c, d)'
    BY Zenon DEF Covered
  <2>4. Due(b, d)
    BY <1>0, <1>2, <1>9 DEF Due
  <2>5. PaidOut(d) + q.amount <= earned[d] /\ \A c \in Batches : Due(c, d) => c = b
    BY <1>0, <1>2, <2>4 DEF Covered
  <2>6. \A c \in Batches : ~Due(c, d)'
    BY <1>7, <2>5
  <2>7. PaidOut(d)' <= earned'[d]
    BY <1>2, <2>2, <2>3, <2>5
  <2> QED
    BY <2>6, <2>7
<1> QED
  BY <1>8, <1>9

\* A step that changes one field of one row, and not to "debit".
LEMMA DueStays ==
    ASSUME PayoutsTypeOK, NEW b \in Batches, NEW r, r.step # "debit",
           batch' = [batch EXCEPT ![b] = r], NEW d
    PROVE  \A c \in Batches : Due(c, d)' => Due(c, d) /\ batch'[c].amount = batch[c].amount
<1>1. batch'[b] = r /\ \A c \in Batches \ {b} : batch'[c] = batch[c]
  BY OneRowMoves
<1> QED
  BY <1>1 DEF Due

\* The steps of CreateBatch that neither read a balance nor debit it.
LEMMA RowCovers ==
    ASSUME PayoutsInv, PayoutsInv', NEW b \in Batches, NEW d \in PaidDrivers, Covered(d),
           CreateBatch(b) \/ InsertItem(b) \/ CloseBatch(b) \/ BatchStops(b) \/ ExportCSV(b)
    PROVE  Covered(d)'
<1> DEFINE q == batch[b]
           Row(s, p) == [status |-> s, step |-> p, todo |-> q.todo, at |-> q.at, amount |-> q.amount]
<1>1. PayoutsTypeOK
  BY DEF PayoutsInv
<1>2. UNCHANGED <<earned, posted, givenBack, overlapped>>
  BY DEF CreateBatch, InsertItem, CloseBatch, BatchStops, ExportCSV
<1>3. PaidOut(d)' = PaidOut(d)
  BY <1>2, PaidOutStays
<1>4. earned[d] <= earned'[d] /\ PaidOut(d)' <= PaidOut(d)
  <2>1. PaidOut(d) \in Nat /\ earned[d] \in Nat
    BY <1>1, PaidOutIsNat
  <2> QED
    BY <1>2, <1>3, <2>1
<1>5. \A c \in Batches : Due(c, d)' => Due(c, d) /\ batch'[c].amount = batch[c].amount
  <2>1. CASE CreateBatch(b)
    <3> DEFINE r == [status |-> "pending", step |-> "each", todo |-> banked, at |-> q.at, amount |-> q.amount]
    <3>1. batch' = [batch EXCEPT ![b] = r] /\ r.step # "debit"
      BY <1>1, <2>1, CreateMoves
    <3> HIDE DEF r
    <3> QED
      BY <1>1, <3>1, DueStays
  <2>2. CASE InsertItem(b)
    <3> DEFINE r == [status |-> q.status, step |-> "each", todo |-> q.todo, at |-> NoDriverPaid, amount |-> 0]
    <3>1. batch' = [batch EXCEPT ![b] = r] /\ r.step # "debit"
      BY <1>1, <2>2, InsertMoves
    <3> HIDE DEF r
    <3> QED
      BY <1>1, <3>1, DueStays
  <2>3. CASE CloseBatch(b)
    <3>1. batch' = [batch EXCEPT ![b] = Row(q.status, "done")] /\ Row(q.status, "done").step # "debit"
      BY <1>1, <2>3, BatchField DEF CloseBatch
    <3> HIDE DEF Row
    <3> QED
      BY <1>1, <3>1, DueStays
  <2>4. CASE BatchStops(b)
    <3>1. batch' = [batch EXCEPT ![b] = Row(q.status, "stopped")] /\ Row(q.status, "stopped").step # "debit"
      BY <1>1, <2>4, BatchField DEF BatchStops
    <3> HIDE DEF Row
    <3> QED
      BY <1>1, <3>1, DueStays
  <2>5. CASE ExportCSV(b)
    <3> DEFINE r == Row("exported", q.step)
    <3>1. batch' = [batch EXCEPT ![b] = r] /\ r.step = q.step /\ r.at = q.at /\ r.amount = q.amount
      BY <1>1, <2>5, BatchField DEF ExportCSV
    <3> HIDE DEF r, Row
    <3>2. batch'[b] = r /\ \A c \in Batches \ {b} : batch'[c] = batch[c]
      BY <1>1, <3>1, OneRowMoves
    <3> QED
      BY <3>1, <3>2 DEF Due
  <2> QED
    BY <2>1, <2>2, <2>3, <2>4, <2>5
<1> QED
  BY <1>2, <1>4, <1>5, CoveredStays

\* The answers of the bank.
LEMMA AnswerCovers ==
    ASSUME PayoutsInv, PayoutsInv', NEW d \in PaidDrivers, Covered(d), NEW b \in Batches, NEW e \in PaidDrivers,
           \/ \E s \in {"paid", "failed"} : SettleItem(b, e, s)
           \/ ReverseItem(b, e) \/ CloseIfSettled(b, e) \/ SettleStops(b, e)
    PROVE  Covered(d)'
<1>1. PayoutsTypeOK
  BY DEF PayoutsInv
<1>2. UNCHANGED <<earned, posted, overlapped>>
  BY DEF SettleItem, ReverseItem, CloseIfSettled, SettleStops
<1>3. PaidOut(d) \in Nat /\ earned[d] \in Nat
  BY <1>1, PaidOutIsNat
<1>4. PaidOut(d)' <= PaidOut(d)
  <2>1. CASE ReverseItem(b, e) /\ e = d
    <3>1. <<b, d>> \notin givenBack /\ givenBack' = givenBack \cup {<<b, d>>}
      BY <2>1 DEF ReverseItem, PayoutsInv, ItemOK
    <3>2. posted' \in [Batches -> [PaidDrivers -> Nat]]
      BY <1>1, <1>2 DEF PayoutsTypeOK
    <3> QED
      BY <1>1, <1>2, <3>1, <3>2, PaidOutMoves
  <2>2. CASE \A c \in Batches : <<c, d>> \in givenBack' <=> <<c, d>> \in givenBack
    <3>1. PaidOut(d)' = PaidOut(d)
      BY <1>2, <2>2, PaidOutStays
    <3> QED
      BY <1>3, <3>1
  <2>3. ReverseItem(b, e) \/ givenBack' = givenBack
    BY DEF SettleItem, CloseIfSettled, SettleStops
  <2>4. ReverseItem(b, e) /\ e # d => \A c \in Batches : <<c, d>> \in givenBack' <=> <<c, d>> \in givenBack
    BY DEF ReverseItem
  <2> QED
    BY <2>1, <2>2, <2>3, <2>4
<1>5. \A c \in Batches : Due(c, d)' => Due(c, d) /\ batch'[c].amount = batch[c].amount
  <2>1. CASE batch' = batch
    BY <2>1 DEF Due
  <2>2. CASE CloseIfSettled(b, e)
    BY <1>1, <2>2, CloseMoves DEF Due
  <2> QED
    BY <2>1, <2>2 DEF SettleItem, ReverseItem, SettleStops
<1>6. earned[d] <= earned'[d]
  BY <1>2, <1>3
<1> QED
  BY <1>2, <1>4, <1>5, <1>6, CoveredStays

\* Rides only raise what a driver earned.
LEMMA WalletCovers ==
    ASSUME PayoutsInv, PayoutsInv', NEW d \in PaidDrivers, Covered(d), NEW e \in PaidDrivers, WalletMoves(e)
    PROVE  Covered(d)'
<1>1. PayoutsTypeOK
  BY DEF PayoutsInv
<1>2. UNCHANGED <<batch, posted, givenBack, overlapped>>
  BY DEF WalletMoves, SetBankAccount, Earn, ChargeCommission
<1>3. PaidOut(d) \in Nat /\ earned[d] \in Nat
  BY <1>1, PaidOutIsNat
<1>4. earned[d] <= earned'[d]
  <2>1. CASE earned' = earned
    BY <1>3, <2>1
  <2>2. ASSUME NEW minor \in 1 .. MaxEarned, Earn(e, minor)
        PROVE  earned[d] <= earned'[d]
    <3>1. earned' = [earned EXCEPT ![e] = earned[e] + minor] /\ earned \in [PaidDrivers -> 0 .. MaxEarned]
      BY <1>1, <2>2 DEF Earn, PayoutsTypeOK
    <3>2. minor \in Nat /\ MaxEarned \in Nat
      BY PayoutsAssumption
    <3>3. CASE d = e
      BY <1>3, <3>1, <3>2, <3>3
    <3>4. CASE d # e
      BY <1>3, <3>1, <3>4
    <3> QED
      BY <3>3, <3>4
  <2> QED
    BY <2>1, <2>2 DEF WalletMoves, SetBankAccount, ChargeCommission
<1>5. PaidOut(d)' <= PaidOut(d)
  <2>1. PaidOut(d)' = PaidOut(d)
    BY <1>2, PaidOutStays
  <2> QED
    BY <1>3, <2>1
<1>6. \A c \in Batches : Due(c, d)' => Due(c, d) /\ batch'[c].amount = batch[c].amount
  BY <1>2 DEF Due
<1> QED
  BY <1>2, <1>4, <1>5, <1>6, CoveredStays

PayoutsIInv == PayoutsInv /\ \A d \in PaidDrivers : Covered(d)

LEMMA PayoutsInductive ==
    PayoutsSpec => []PayoutsIInv
<1>1. PayoutsInit => PayoutsIInv
  <2> SUFFICES ASSUME PayoutsInit, NEW d \in PaidDrivers
               PROVE  Covered(d)
    BY PayoutsStarts DEF PayoutsIInv
  <2>1. PayoutsTypeOK /\ \A b \in Batches : posted[b][d] = 0 /\ ~Due(b, d)
    BY PayoutsStarts DEF PayoutsInit, PayoutsInv, Due
  <2>2. PaidOut(d) = 0 /\ earned[d] = 0
    <3>1. Kept(givenBack, d) \in SUBSET Batches
      BY DEF Kept
    <3>2. PaidOut(d) = SumOf(Column(posted, d), Kept(givenBack, d))
      BY PaidOutIsSum DEF Unreturned
    <3>3. \A b \in Kept(givenBack, d) : Column(posted, d)[b] = 0
      BY <2>1, <3>1 DEF Column
    <3>4. IsFiniteSet(Kept(givenBack, d))
      BY <3>1, PayoutsAssumption, FS_Subset
    <3> QED
      BY <3>2, <3>3, <3>4, SumOfNothing DEF PayoutsInit
  <2> QED
    BY <2>1, <2>2 DEF Covered
<1>2. PayoutsIInv /\ [PayoutsNext]_payoutVars => PayoutsIInv'
  <2> SUFFICES ASSUME PayoutsIInv, [PayoutsNext]_payoutVars
               PROVE  PayoutsIInv'
    OBVIOUS
  <2>1. PayoutsInv /\ PayoutsInv'
    BY PayoutsStep DEF PayoutsIInv
  <2>2. ASSUME NEW d \in PaidDrivers
        PROVE  Covered(d)'
    <3>1. Covered(d)
      BY DEF PayoutsIInv
    <3>2. CASE UNCHANGED payoutVars
      <4>1. PayoutsTypeOK
        BY <2>1 DEF PayoutsInv
      <4>2. UNCHANGED <<earned, posted, givenBack, overlapped, batch>>
        BY <3>2 DEF payoutVars
      <4>4. PaidOut(d)' = PaidOut(d)
        BY <4>2, PaidOutStays
      <4>5. earned[d] <= earned'[d] /\ PaidOut(d)' <= PaidOut(d)
        <5>1. PaidOut(d) \in Nat /\ earned[d] \in Nat
          BY <4>1, PaidOutIsNat
        <5> QED
          BY <4>2, <4>4, <5>1
      <4>6. \A c \in Batches : Due(c, d)' => Due(c, d) /\ batch'[c].amount = batch[c].amount
        BY <4>2 DEF Due
      <4> QED
        BY <2>1, <3>1, <4>2, <4>5, <4>6, CoveredStays
    <3>3. CASE PayoutsNext
      <4>1. ASSUME NEW b \in Batches, PayNext(b) PROVE Covered(d)'
        BY <2>1, <3>1, <4>1, PayNextCovers
      <4>2. ASSUME NEW b \in Batches, DebitDriver(b) PROVE Covered(d)'
        BY <2>1, <3>1, <4>2, DebitDriverCovers
      <4>3. ASSUME NEW b \in Batches,
                   CreateBatch(b) \/ InsertItem(b) \/ CloseBatch(b) \/ BatchStops(b) \/ ExportCSV(b)
            PROVE  Covered(d)'
        BY <2>1, <3>1, <4>3, RowCovers
      <4>4. ASSUME NEW b \in Batches, NEW e \in PaidDrivers,
                   \/ \E s \in {"paid", "failed"} : SettleItem(b, e, s)
                   \/ ReverseItem(b, e) \/ CloseIfSettled(b, e) \/ SettleStops(b, e)
            PROVE  Covered(d)'
        BY <2>1, <3>1, <4>4, AnswerCovers
      <4>5. ASSUME NEW e \in PaidDrivers, WalletMoves(e) PROVE Covered(d)'
        BY <2>1, <3>1, <4>5, WalletCovers
      <4> QED
        BY <3>3, <4>1, <4>2, <4>3, <4>4, <4>5, Zenon DEF PayoutsNext, WalletMoves
    <3> QED
      BY <3>2, <3>3
  <2> QED
    BY <2>1, <2>2, Zenon DEF PayoutsIInv
<1> QED
  BY <1>1, <1>2, PTL DEF PayoutsSpec

\* The rows of payout_batches and payout_items are well typed, whatever the
\* number of drivers, batches and settlements that run at once.
THEOREM PayoutsTypeCorrect ==
    PayoutsSpec => []PayoutsTypeOK
<1>1. PayoutsIInv => PayoutsTypeOK
  BY DEF PayoutsIInv, PayoutsInv
<1> QED
  BY <1>1, PayoutsInductive, PTL

\* Payouts, the ledger and what was earned agree, for any number of drivers and
\* batches (payouts.go, CreateBatch and SettleItem): an item stands for exactly the
\* debit of its key, money went back only for an item that failed, a failed item
\* whose money is not back is one whose SettleItem has still to post it or stopped,
\* and nobody is paid more than he earned unless two batches read his balance at once.
THEOREM PayoutsAgree ==
    PayoutsSpec => []PayoutsAddUp
<1>1. PayoutsIInv => PayoutsAddUp
  <2> SUFFICES ASSUME PayoutsIInv PROVE PayoutsAddUp
    OBVIOUS
  <2>1. ASSUME NEW b \in Batches, NEW d \in PaidDrivers
        PROVE  /\ item[b][d].status # "none" =>
                      item[b][d].amount = posted[b][d] /\ posted[b][d] >= MinPayoutMinor
               /\ posted[b][d] > 0 /\ item[b][d].status = "none" =>
                      batch[b].at = d /\ batch[b].step \in {"insert", "stopped"}
               /\ <<b, d>> \in givenBack => item[b][d].status = "failed"
               /\ item[b][d].status = "failed" /\ <<b, d>> \notin givenBack =>
                      answering[b][d] \in {"reverse", "stopped"}
    <3>1. ItemOK(b, d) /\ DebitOK(batch[b], b, d)
      BY DEF PayoutsIInv, PayoutsInv
    <3> QED
      BY <3>1 DEF ItemOK, DebitOK
  <2>2. \A d \in PaidDrivers \ overlapped : PaidOut(d) <= earned[d]
    BY DEF PayoutsIInv, Covered
  <2> QED
    BY <2>1, <2>2, Zenon DEF PayoutsAddUp
<1> QED
  BY <1>1, PayoutsInductive, PTL
-----------------------------------------------------------------------------
\* Every component of the back office behaves by its own specification beside
\* the others.
LEMMA PartsOfBackoffice ==
    BackofficeSpec => /\ Spec /\ RefundsSpec /\ PayoutsSpec /\ PapersSpec
                      /\ EventsSpec /\ ExportsSpec /\ ImagesSpec
<1>1. BackofficeInit => /\ Init /\ RefundsInit /\ PayoutsInit /\ PapersInit
                        /\ EventsInit /\ ExportsInit /\ ImagesInit
  BY DEF BackofficeInit
<1>2. [BackofficeNext]_<<allVars, focus>> =>
          /\ [Next]_vars /\ [RefundsNext]_refundVars /\ [PayoutsNext]_payoutVars /\ [PapersNext]_paperVars
          /\ [EventsNext]_eventVars /\ [ExportsNext]_exportVars /\ [ImagesNext]_imageVars
  BY Zenon DEF BackofficeNext, allVars
<1> QED
  BY <1>1, <1>2, PTL DEF BackofficeSpec, Spec, RefundsSpec, PayoutsSpec, PapersSpec,
                         EventsSpec, ExportsSpec, ImagesSpec

\* The back office as a whole is well typed in every reachable state.
THEOREM BackofficeTypeCorrect == BackofficeSpec => []BackofficeTypeOK
<1>1. TypeOK /\ RefundsTypeOK /\ PayoutsTypeOK /\ PapersTypeOK /\ EventsTypeOK /\ ExportsTypeOK /\ ImagesTypeOK
      => BackofficeTypeOK
  BY DEF BackofficeTypeOK
<1> QED
  BY <1>1, PartsOfBackoffice, TopUpsTypeCorrect, RefundsTypeCorrect, PayoutsTypeCorrect, PapersTypeCorrect,
     EventsTypeCorrect, ExportsTypeCorrect, ImagesTypeCorrect, PTL

\* Card payments, refunds, payouts, papers, exports and images keep their
\* promises beside each other and under any schedule, the fair ones included:
\* in every reachable state of the back office, the properties of all of them.
THEOREM BackofficeIsInOrder ==
    BackofficeSpec =>
        /\ [](CreditFollowsCapture /\ CardOnlyAfterDebit /\ SucceededIsTrue /\ PayoutsAddUp)
        /\ [](ApprovedWasVetted /\ ExportsKeepTheirWord /\ ShownImageIsStored)
<1>1. BackofficeSpec => /\ []CreditFollowsCapture /\ []CardOnlyAfterDebit
                        /\ []SucceededIsTrue /\ []PayoutsAddUp
  BY PartsOfBackoffice, OneCredit, DebitComesFirst, SucceededRefunds, PayoutsAgree
<1>2. BackofficeSpec => []ApprovedWasVetted /\ []ExportsKeepTheirWord /\ []ShownImageIsStored
  BY PartsOfBackoffice, DriversWereVetted, ExportsKeepWord, ShownIsStored
<1> QED
  BY <1>1, <1>2, PTL

\* And its users are told of an event once, and of each thing's events in order.
THEOREM BackofficeTellsInOrder == BackofficeSpec => []ToldOncePerEvent /\ EventsInOrder
  BY PartsOfBackoffice, ToldOncePerNotice, TopicInOrder
================================================================================
