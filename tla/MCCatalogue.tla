------------------------------ MODULE MCCatalogue ------------------------------
(***************************************************************************)
(* One dictionary with two grants, one thread with a message, two admins.  *)
(***************************************************************************)
EXTENDS CatalogueProps, TLC

CONSTANTS d, r1, r2, t, m, ann, ben, photo, thumb, clip

MCParent == (r1 :> d) @@ (r2 :> d) @@ (m :> t)
MCOriginal == thumb :> photo
MCHome == [q \in {photo, thumb, clip} |-> d]

\* The events of E, each as often as it says; every other never.
Budget(E) == [e \in Events |-> IF e \in DOMAIN E THEN E[e] ELSE 0]

Start(live, fresh, broken, builder, E) ==
    [live |-> live, fresh |-> fresh, broken |-> broken, builder |-> builder, bucket |-> FALSE,
     media |-> {}, budget |-> Budget(E)]

\* One dictionary, its media M, and nobody at the pages.
MediaStart(M, E) ==
    [Start({d}, {}, {}, FALSE, E) EXCEPT !.bucket = TRUE, !.media = M]

\* Two admins edit one dictionary; a push in vain restamps it; a page is reloaded.
Edits == Start({d}, {ben}, {}, FALSE, [save |-> 2, vain |-> 1, reload |-> 1])

\* A browser loses its network while a dictionary is edited.
Unplugged == Start({d}, {}, {}, FALSE, [save |-> 2, offline |-> 1])

\* Grants change, appear and disappear.
Grants == Start({d, r1}, {ben}, {}, FALSE, [save |-> 1, grant |-> 1, sync |-> 2])

\* A grant is revoked under an admin who edits it.
Revoked == Start({d, r1}, {}, {}, FALSE, [save |-> 1, revoke |-> 1, sync |-> 1, loss |-> 1])

\* A thread is edited while a message comes in; it is deleted while a reply goes out.
Threads == Start({t}, {}, {}, FALSE, [save |-> 1, post |-> 1, sync |-> 1])
Replies == Start({t}, {}, {}, FALSE, [save |-> 1, reply |-> 1, delete |-> 1, restart |-> 1])

\* A file without a dictionary its cursor has passed.
Wedged == Start({d}, {}, {ben}, FALSE, [grant |-> 1, sync |-> 2, offline |-> 1])

\* A dictionary is deleted under an admin who edits it.
TornDown == Start({d, r1}, {}, {}, FALSE, [save |-> 1, remove |-> 1, confirm |-> 1, sync |-> 1])

\* Content, bucket and snapshot.
Swept == Start({d}, {}, {}, TRUE, [push |-> 2, unmirrored |-> 1, vain |-> 1, r2 |-> 1, restart |-> 1])

\* A dictionary is deleted under the sweep.
Emptied == Start({d}, {ben}, {}, TRUE, [push |-> 1, save |-> 1, remove |-> 1, r2 |-> 1])

\* A recording is uploaded under the job, and its row comes when it comes.
Uploaded == MediaStart({}, [upload |-> 1, attach |-> 1, kill |-> 1, restart |-> 1, remove |-> 1])

\* A photo loses its row, gets another under the same id, and its file becomes unreadable.
Orphaned == MediaStart({photo, thumb}, [detach |-> 1, upload |-> 1, attach |-> 1, unreadable |-> 2])

\* The store and the job fail while a photo is reclaimed.
Reclaimed == MediaStart({photo, thumb}, [detach |-> 1, media |-> 2, kill |-> 1, restart |-> 1])

\* Three objects: two at once trip the brake, one does not.
Brakes == MediaStart({photo, thumb, clip}, [detach |-> 2, unreadable |-> 1, remove |-> 1])

MCStarts == {Edits, Unplugged, Grants, Revoked, Threads, Replies, Wedged, TornDown, Swept, Emptied,
             Uploaded, Orphaned, Reclaimed, Brakes}

===============================================================================
