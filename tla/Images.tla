-------------------------------- MODULE Images -------------------------------
(***************************************************************************)
(* Logos, covers, product images and photos: modules/media.  The client    *)
(* puts the object under a signed URL; Confirm writes its key in the       *)
(* owner's column and then deletes the object shown before, Remove clears  *)
(* the column and deletes.  Each is a transaction followed by a call to    *)
(* the store, so two of them interleave, and a key may be confirmed again. *)
(* The profile of a place and its products are also written with whatever  *)
(* key the request names: nothing looks whether it is stored.              *)
(***************************************************************************)
EXTENDS Naturals

CONSTANTS
    Uploads,    \* the keys that UploadURL signs
    Columns,    \* merchants.logo_key, merchants.cover_key, ... of some rows
    ColumnOf,   \* ColumnOf[i]: the column of the owner and the kind in key i
    MediaCalls, \* calls of Confirm and Remove under way at once
    NoImage

ASSUME ImagesAssumption ==
    /\ NoImage \notin Uploads
    /\ ColumnOf \in [Uploads -> Columns]

VARIABLES
    object,     \* object[i]: what the bucket has under key i
    image,      \* image[k]: the key in column k
    call,       \* call[c]: where a call of Confirm or Remove is, the key that it
                \* writes (NoImage: Remove), the column, and the previous key that
                \* its statement saw
    written     \* written[i]: history: whether key i was written in any column
                \* never, by one Confirm, or again: by more than that, or with
                \* another object put over it

imageVars == <<object, image, call, written>>

NoCall == [step |-> "idle", key |-> NoImage, at |-> NoImage, previous |-> NoImage]

ImagesInit ==
    /\ object = [i \in Uploads |-> "unsigned"]
    /\ image = [k \in Columns |-> NoImage]
    /\ call = [c \in MediaCalls |-> NoCall]
    /\ written = [i \in Uploads |-> "never"]

\* UploadURL signs a fresh key.
UploadURL(i) ==
    /\ object[i] = "unsigned"
    /\ object' = [object EXCEPT ![i] = "none"]
    /\ UNCHANGED <<image, call, written>>

\* The client puts an object, as promised or not, while the URL is valid, also
\* over one that was already there.
PutObject(i, fits) ==
    /\ object[i] # "unsigned"
    /\ object' = [object EXCEPT ![i] = IF fits THEN "fit" ELSE "unfit"]
    /\ written' = [written EXCEPT ![i] = IF object[i] = "fit" THEN "again" ELSE @]
    /\ UNCHANGED <<image, call>>

\* Confirm, Head: an object that is missing is refused, and one that is not as
\* promised is deleted.
CheckObject(c, i) ==
    /\ call[c].step = "idle"
    /\ \/ /\ object[i] = "fit"
          /\ call' = [call EXCEPT ![c] = [step |-> "checked", key |-> i, at |-> ColumnOf[i], previous |-> NoImage]]
          /\ UNCHANGED object
       \/ /\ object[i] = "unfit"
          /\ object' = [object EXCEPT ![i] = "none"]
          /\ UNCHANGED call
    /\ UNCHANGED <<image, written>>

Remove(c, k) ==
    /\ call[c].step = "idle"
    /\ call' = [call EXCEPT ![c] = [step |-> "checked", key |-> NoImage, at |-> k, previous |-> NoImage]]
    /\ UNCHANGED <<object, image, written>>

\* What Delete leaves of the bucket; an error is ignored by every caller.
Without(i, deleted) ==
    IF deleted /\ i \in Uploads /\ object[i] # "unsigned" THEN [object EXCEPT ![i] = "none"] ELSE object

\* Mutant: the previous object is deleted before the transaction commits.
ConfirmReadsDeleting(c) ==
    /\ call[c].step = "checked"
    /\ call' = [call EXCEPT ![c] = [step |-> "writing", key |-> call[c].key, at |-> call[c].at,
                                    previous |-> image[call[c].at]]]
    /\ object' = Without(image[call[c].at], TRUE)
    /\ UNCHANGED <<image, written>>

\* UPDATE ... RETURNING (SELECT the column): the subquery reads the snapshot of
\* the statement, taken before it may have waited for the owner's row.
ConfirmReads(c) ==
    /\ call[c].step = "checked"
    /\ call' = [call EXCEPT ![c] = [step |-> "writing", key |-> call[c].key, at |-> call[c].at,
                                    previous |-> image[call[c].at]]]
    /\ UNCHANGED <<object, image, written>>

ConfirmCommits(c) ==
    LET i == call[c].key IN
    /\ call[c].step = "writing"
    /\ call' = [call EXCEPT ![c].step = "delete"]
    /\ image' = [image EXCEPT ![call[c].at] = i]
    /\ written' = IF i = NoImage THEN written
                  ELSE [written EXCEPT ![i] = IF @ = "never" THEN "once" ELSE "again"]
    /\ UNCHANGED object

\* The transaction fails.
ConfirmFails(c) ==
    /\ call[c].step = "writing"
    /\ call' = [call EXCEPT ![c] = NoCall]
    /\ UNCHANGED <<object, image, written>>

\* The previous object goes, unless Confirm wrote the same key once more; the
\* end of the process here is like an error.
DeletePrevious(c, deleted) ==
    /\ call[c].step = "delete"
    /\ call' = [call EXCEPT ![c] = NoCall]
    /\ object' = Without(call[c].previous, deleted /\ call[c].previous # call[c].key)
    /\ UNCHANGED <<image, written>>

\* UpdateProfile of merchants and UpsertProduct write a key from the request;
\* NoImage stands for one that no upload has.
WriteKey(k, i) ==
    /\ image' = [image EXCEPT ![k] = i]
    /\ written' = [j \in Uploads |-> IF j = i THEN "again" ELSE written[j]]
    /\ UNCHANGED <<object, call>>

ImagesNext ==
    \/ \E i \in Uploads : UploadURL(i) \/ \E fits \in BOOLEAN : PutObject(i, fits)
    \/ \E k \in Columns, i \in Uploads \cup {NoImage} : WriteKey(k, i)
    \/ \E c \in MediaCalls :
        \/ \E i \in Uploads : CheckObject(c, i)
        \/ \E k \in Columns : Remove(c, k)
        \/ ConfirmReads(c) \/ ConfirmCommits(c) \/ ConfirmFails(c)
        \/ \E ok \in BOOLEAN : DeletePrevious(c, ok)

ImagesSpec == ImagesInit /\ [][ImagesNext]_imageVars

-----------------------------------------------------------------------------
ImagesTypeOK ==
    /\ object \in [Uploads -> {"unsigned", "none", "fit", "unfit"}]
    /\ image \in [Columns -> Uploads \cup {NoImage}]
    /\ call \in [MediaCalls -> [
           step : {"idle", "checked", "writing", "delete"}, key : Uploads \cup {NoImage},
           at : Columns \cup {NoImage}, previous : Uploads \cup {NoImage}]]
    /\ written \in [Uploads -> {"never", "once", "again"}]

(***************************************************************************)
(* Confirmations, removals and changes of profiles in any order: an image  *)
(* that one Confirm put where it is shown, and that nothing else ever      *)
(* wrote or put anew, is in the bucket as it was promised.  What a call    *)
(* deletes is therefore never what another has just made current, although *)
(* its previous key may be stale.  A key that is confirmed again, or       *)
(* copied by a profile, may well be shown and gone (see README).           *)
(***************************************************************************)
ShownImageIsStored ==
    \A k \in Columns : image[k] # NoImage /\ written[image[k]] = "once" => object[image[k]] = "fit"
=============================================================================
