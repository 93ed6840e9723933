----------------------------- MODULE MCBackoffice -----------------------------
\* What goes on behind the screens: card payments and their refunds, payouts,
\* the papers of drivers, events and notifications, exports and images.  They
\* share no state but the ledger, which each uses through keys of its own, so
\* a behaviour is one of them: focus, fixed at the start, says which.
EXTENDS TopUps, Refunds, Payouts, DriverPapers, Events, DataExports, Images, Notices

CONSTANTS d1, d2, u1, u2, e1, e2, ride, logo

\* Two licences, the second confirmed after the first, and a taxi permit, which
\* here does not expire.
MCOwnerOf == [p \in Papers |-> d1]
MCTypeOf == [p \in Papers |-> IF p = 3 THEN "permit" ELSE "license"]

\* Two events of one ride: its driver gives up and no other is found.  Both are
\* told to its customer; the second does not name him.
MCAggregateOf == [e \in OutboxEvents |-> ride]
MCEvent(e) ==
    [type |-> IF e = e1 THEN "RideRequested" ELSE "RideNoDriver", reassign |-> TRUE,
     names |-> [role \in {"customer"} |-> IF e = e1 THEN u1 ELSE Nobody], customer |-> u1]
MCNoticeOf == [e \in OutboxEvents |-> Recipients(MCEvent(e))]

\* Two requests of one user, one after the other, and one of another.
MCAsking == [x \in Exports |-> IF x = 3 THEN u2 ELSE u1]

\* Two uploads of a logo; the cover of the place only has copies of them.
MCColumnOf == [i \in Uploads |-> logo]

VARIABLE focus

allVars == <<vars, refundVars, payoutVars, paperVars, eventVars, exportVars, imageVars>>

BackofficeInit ==
    /\ Init /\ RefundsInit /\ PayoutsInit /\ PapersInit
    /\ EventsInit /\ ExportsInit /\ ImagesInit
    /\ focus \in {"topups", "refunds", "payouts", "papers", "events", "exports", "images"}

\* Of two refunds, one is of half the top-up, and the provider sends events of
\* this one only.
HalfRefund == CHOOSE f \in Refunds : TRUE
OneHalf ==
    /\ amount[HalfRefund] \in {0, Total \div 2}
    /\ \A event \in refundEvents : event[1] = HalfRefund

\* Payouts go to one driver in two batches, of which the second is not exported
\* and its creation not stopped, or to two in the first.
FirstBatch == CHOOSE b \in Batches : TRUE
OneOfTwo ==
    /\ \A b \in Batches \ {FirstBatch} : batch[b].step # "idle" =>
           /\ batch[FirstBatch].step # "idle" /\ d2 \notin banked
           /\ batch[b].step # "stopped" /\ batch[b].status # "exported"
    /\ d2 \in banked => d1 \in banked
    /\ d2 \notin banked => earned[d2] = 0
    /\ earned[d2] <= 1 /\ charged[d2] = 0

\* Of the uploads, one is not confirmed or copied again, and the objects of the
\* others are as promised; which one is the same.  The cover is not removed.
OnceUpload == CHOOSE i \in Uploads : TRUE
OneOnce ==
    /\ written[OnceUpload] # "again"
    /\ \A i \in Uploads \ {OnceUpload} : object[i] # "unfit"
    /\ \A c \in MediaCalls : call[c].at \in {logo, NoImage}

BackofficeNext ==
    /\ \/ /\ focus = "topups" /\ Next
          /\ UNCHANGED <<refundVars, payoutVars, paperVars, eventVars, exportVars, imageVars>>
       \/ /\ focus = "refunds" /\ RefundsNext /\ OneHalf'
          /\ UNCHANGED <<vars, payoutVars, paperVars, eventVars, exportVars, imageVars>>
       \/ /\ focus = "payouts" /\ PayoutsNext /\ OneOfTwo'
          /\ UNCHANGED <<vars, refundVars, paperVars, eventVars, exportVars, imageVars>>
       \/ /\ focus = "papers" /\ PapersNext
          /\ UNCHANGED <<vars, refundVars, payoutVars, eventVars, exportVars, imageVars>>
       \/ /\ focus = "events" /\ EventsNext
          /\ UNCHANGED <<vars, refundVars, payoutVars, paperVars, exportVars, imageVars>>
       \/ /\ focus = "exports" /\ ExportsNext
          /\ UNCHANGED <<vars, refundVars, payoutVars, paperVars, eventVars, imageVars>>
       \/ /\ focus = "images" /\ ImagesNext /\ OneOnce'
          /\ UNCHANGED <<vars, refundVars, payoutVars, paperVars, eventVars, exportVars>>
    /\ UNCHANGED focus

BackofficeSpec ==
    /\ BackofficeInit /\ [][BackofficeNext]_<<allVars, focus>>
    /\ Fairness /\ EventsFairness

\* The type invariants of the seven.
BackofficeTypeOK ==
    /\ TypeOK /\ RefundsTypeOK /\ PayoutsTypeOK /\ PapersTypeOK
    /\ EventsTypeOK /\ ExportsTypeOK /\ ImagesTypeOK
=============================================================================
