----------------------------- MODULE MCRenditions -----------------------------
(***************************************************************************)
(* Renditions with its runs cut to a size TLC explores.  While photos are  *)
(* worked on, the watermark is uploaded or removed once at most; it        *)
(* changes oftener, or is named by a change of the profile, or a foreign   *)
(* name is that of an object, only while no photo is in work.  A proxy     *)
(* from which the backfill can not derive belongs to a photographer who    *)
(* has a watermark, which the backfill does not look at.                   *)
(***************************************************************************)
EXTENDS Renditions, TLC

Quiet ==
    /\ queue = {} /\ \A w \in Worker : At(w, "idle")
    /\ photos = Photo /\ shelf = "never" /\ made = proxy

Large == edits > 1 \/ Foreign \in assets \/ named # {}

Within == Large => Quiet

Start == Init /\ Within /\ (spoiled = {} \/ watermark # 0)

StartSpec == Start /\ [][Next /\ Within']_vars

Clients == Permutations(Request)

=============================================================================
