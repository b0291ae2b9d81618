------------------------------- MODULE Gallery -------------------------------
(***************************************************************************)
(* The gallery of one event as its visitors use it: they sign in by a      *)
(* one-time password, which is kept per phone, not per event; a guest's    *)
(* selfie is matched with the event's face clusters (guest_service.py,     *)
(* ml/matching); the couple mark and share photos (couple_service.py).     *)
(* One party is followed at a time: their requests write different rows.   *)
(*                                                                         *)
(* Requests overlap.  Each loads its session with the event and the photos *)
(* first (api/deps.py, lazy="selectin"): what it checks of them later is   *)
(* that copy.  Meanwhile photos are deleted, faces found, clusters merged, *)
(* and the event archived and restored.                                    *)
(***************************************************************************)
EXTENDS Integers, FiniteSets

CONSTANTS
    Photo,      \* photos of the event
    Cluster,    \* ids of face clusters
    Request     \* requests that may be in progress at once

ASSUME GalleryAssumption == IsFiniteSet(Photo) /\ IsFiniteSet(Request)

VARIABLES
    party,      \* who calls: a visitor who signs in, or a signed-in guest or couple
    status,     \* events.status
    link,       \* guest_link_active or master_link_active
    rows,       \* photos that have a row
    shown,      \* photos whose processing_status is COMPLETED
    faces,      \* the clusters of each photo's embeddings
    live,       \* face_clusters
    session,    \* the visitor's session: none, pending or phone_verified
    code,       \* where the code that Redis keeps for the phone was asked for
    matched,    \* guest_sessions.matched_cluster_ids
    count,      \* guest_sessions.matched_photo_count
    shared,     \* photos.shared_with_guests
    fav,        \* the couple's row of favorites for each photo, or 0
    call,       \* what each request is at, with its copies
    moved,      \* history: the match was stored from outdated data, or has become so
    flips,      \* history: photos that were toggled shared an odd number of times
    likes,      \* history: photos whose last toggle was answered "favorite"
    raced       \* history: kinds of toggles that overlapped with another of the same photo

photos  == <<rows, shown>>
people  == <<faces, live>>
signing == <<session, code>>
match   == <<matched, count, moved>>
marks   == <<shared, fav, flips, likes, raced>>
vars    == <<party, status, link, photos, people, signing, match, marks, call>>

(* As many ids as the rows that are there and the copies that requests hold. *)
RowIds == 1..(Cardinality(Photo) + Cardinality(Request))

MatchCalls  == [step : {"match"}, counted : Nat, old : BOOLEAN]
IdsCalls    == [step : {"ids"}, counted : Nat, old : BOOLEAN, hits : SUBSET Cluster]
SaveCalls   == [step : {"save"}, counted : Nat, old : BOOLEAN, hits : SUBSET Cluster,
                ids : SUBSET Photo]
ToggleCalls == [step : {"favorite", "share", "flip"}, photo : Photo, was : BOOLEAN,
                old : BOOLEAN]
MarkCalls   == [step : {"mark"}, photo : Photo, row : RowIds \cup {0}, old : BOOLEAN]

Calls ==
    [step : {"off", "send", "verify"}] \cup [step : {"ask"}, found : BOOLEAN]
    \cup MatchCalls \cup IdsCalls \cup SaveCalls \cup ToggleCalls \cup MarkCalls

EventOK == /\ party \in {"visitor", "guest", "couple"} /\ link \in BOOLEAN
           /\ status \in {"ready", "processing", "archived"}
           /\ session \in {"none", "pending", "verified"}
           /\ code \in {"none", "here", "elsewhere"}

PhotosOK == /\ shown \subseteq rows /\ rows \subseteq Photo
            /\ faces \in [Photo -> SUBSET live] /\ live \subseteq Cluster
            /\ \A p \in Photo \ rows : faces[p] = {}

MatchOK == matched \subseteq Cluster /\ count \in 0..Cardinality(Photo) /\ moved \in BOOLEAN

MarksOK == /\ shared \subseteq rows /\ fav \in [Photo -> RowIds \cup {0}]
           /\ \A p \in Photo \ rows : fav[p] = 0
           /\ flips \subseteq rows /\ likes \subseteq rows
           /\ raced \subseteq {"favorite", "share"}

TypeOK == EventOK /\ PhotosOK /\ MatchOK /\ MarksOK /\ call \in [Request -> Calls]

(* Photos of these clusters' people. *)
Showing(clusters) == {p \in Photo : faces[p] \cap clusters # {}}

Init ==
    /\ party \in {"visitor", "guest", "couple"} /\ status = "ready" /\ link = TRUE
    /\ rows = Photo /\ shown = Photo
    /\ live \in IF party = "guest" THEN SUBSET Cluster ELSE {{}}
    /\ faces \in [Photo -> SUBSET live]
    /\ live = UNION {faces[p] : p \in Photo}
    /\ session = IF party = "visitor" THEN "none" ELSE "verified"
    /\ code = "none"
    /\ matched = {} /\ count = 0 /\ moved = FALSE
    /\ shared = {} /\ fav = [p \in Photo |-> 0]
    /\ flips = {} /\ likes = {} /\ raced = {}
    /\ call = [r \in Request |-> [step |-> "off"]]

------------------------------------------------------------------------------
At(r, step) == call[r].step = step
Goes(r, c)  == call' = [call EXCEPT ![r] = c]
Answers(r)  == Goes(r, [step |-> "off"])

(* What the sign-in and the galleries require: a READY event and an active link. *)
Open == status = "ready" /\ link

(* request_auth: the event's state and the session, which is created if there is  *)
(* none.  Of two requests that found none, one breaks uq_guest_sessions_event_    *)
(* phone (uq_couple_sessions_event_phone) and ends without sending a code.        *)
AskBegins(r) ==
    /\ party = "visitor" /\ At(r, "off") /\ Open
    /\ Goes(r, [step |-> "ask", found |-> session # "none"])
    /\ UNCHANGED <<party, status, link, photos, people, signing, match, marks>>

AskCommits(r) ==
    /\ At(r, "ask")
    /\ \/ /\ call[r].found \/ session = "none"
          /\ session' = IF call[r].found THEN session ELSE "pending"
          /\ Goes(r, [step |-> "send"])
       \/ /\ ~call[r].found /\ session # "none"
          /\ Answers(r) /\ UNCHANGED session
    /\ UNCHANGED <<party, status, link, photos, people, code, match, marks>>

(* otp_service.send_otp: it stores the code, or refuses or fails. *)
AskSends(r) ==
    /\ At(r, "send")
    /\ code' \in {code, "here"}
    /\ Answers(r)
    /\ UNCHANGED <<party, status, link, photos, people, session, match, marks>>

(* The same phone asks for a code at another event: the key is the same. *)
AskElsewhere ==
    /\ party = "visitor" /\ code' = "elsewhere"
    /\ UNCHANGED <<party, status, link, photos, people, session, match, marks, call>>

(* verify_auth with the right code, which is then spent. *)
VerifyBegins(r) ==
    /\ party = "visitor" /\ At(r, "off") /\ Open
    /\ code # "none" /\ code' = "none"
    /\ Goes(r, [step |-> "verify"])
    /\ UNCHANGED <<party, status, link, photos, people, session, match, marks>>

(* "Session not found. Please request a new OTP." when there is none. *)
VerifyCommits(r) ==
    /\ At(r, "verify")
    /\ session' = IF session = "none" THEN session ELSE "verified"
    /\ Answers(r)
    /\ UNCHANGED <<party, status, link, photos, people, code, match, marks>>

CodeExpires ==
    /\ code # "none" /\ code' = "none"
    /\ UNCHANGED <<party, status, link, photos, people, session, match, marks, call>>

(* The two endpoints of a link's sign-in. *)
Asks(r)     == AskBegins(r) \/ AskCommits(r) \/ AskSends(r)
Verifies(r) == VerifyBegins(r) \/ VerifyCommits(r)
SignIn(r)   == Asks(r) \/ Verifies(r)

------------------------------------------------------------------------------
(* The guest's selfie *)

(* get_guest_session_for_slug and the gate of process_selfie. *)
SelfieBegins(r) ==
    /\ party = "guest" /\ At(r, "off") /\ session = "verified" /\ Open
    /\ Goes(r, [step |-> "match", counted |-> count, old |-> FALSE])
    /\ UNCHANGED <<party, status, link, photos, people, signing, match, marks>>

(* SelfieMatcher.match: the clusters that are near enough to the selfie. *)
SelfieMatches(r) ==
    /\ At(r, "match")
    /\ \E hits \in SUBSET live \ {{}} :
          Goes(r, [step |-> "ids", counted |-> call[r].counted, old |-> call[r].old,
                   hits |-> hits])
    /\ UNCHANGED <<party, status, link, photos, people, signing, match, marks>>

(* _load_photo_ids *)
SelfieReads(r) ==
    /\ At(r, "ids")
    /\ Goes(r, [step |-> "save", counted |-> call[r].counted, old |-> call[r].old,
                hits |-> call[r].hits, ids |-> Showing(call[r].hits)])
    /\ UNCHANGED <<party, status, link, photos, people, signing, match, marks>>

(* No face, a failed liveness or quality check, no near cluster, or a timeout: *)
(* the result is an empty one.                                                 *)
SelfieFails(r) ==
    /\ At(r, "match") \/ At(r, "ids")
    /\ Goes(r, [step |-> "save", counted |-> call[r].counted, old |-> call[r].old,
                hits |-> {}, ids |-> {}])
    /\ UNCHANGED <<party, status, link, photos, people, signing, match, marks>>

(* Requests that read the match before it changed.  (history) *)
Outdate(calls, steps) ==
    [q \in Request |-> IF calls[q].step \in steps THEN [calls[q] EXCEPT !.old = TRUE]
                       ELSE calls[q]]

(* Mutant: the count is set by a selfie that matched only. *)
SelfieSavesMatchOnly(r) ==
    /\ At(r, "save")
    /\ matched' = call[r].hits
    /\ count' = IF call[r].hits = {} THEN count ELSE Cardinality(call[r].ids)
    /\ moved' = call[r].old
    /\ call' = Outdate([call EXCEPT ![r] = [step |-> "off"]], {"match", "ids", "save"})
    /\ UNCHANGED <<party, status, link, photos, people, signing, marks>>

(* matched_cluster_ids is flagged as modified, so it is written.  The count is *)
(* written only when it differs from the count that was loaded.                *)
SelfieSaves(r) ==
    /\ At(r, "save")
    /\ matched' = call[r].hits
    /\ LET n == Cardinality(call[r].ids)
       IN  count' = IF n = call[r].counted THEN count ELSE n
    /\ moved' = call[r].old
    /\ call' = Outdate([call EXCEPT ![r] = [step |-> "off"]], {"match", "ids", "save"})
    /\ UNCHANGED <<party, status, link, photos, people, signing, marks>>

Matching(r) == SelfieMatches(r) \/ SelfieReads(r) \/ SelfieFails(r)

Selfie(r) == SelfieBegins(r) \/ Matching(r) \/ SelfieSaves(r)

------------------------------------------------------------------------------
(* The couple's marks *)

(* get_couple_session_for_slug, which loads the photos, and the gate. *)
ToggleBegins(r, p, kind) ==
    /\ party = "couple" /\ At(r, "off") /\ session = "verified" /\ Open
    /\ Goes(r, [step |-> kind, photo |-> p, was |-> p \in shared, old |-> FALSE])
    /\ UNCHANGED <<party, status, link, photos, people, signing, match, marks>>

(* The other toggles of this photo that have yet to be committed.  (history) *)
Others(r, steps) ==
    [q \in Request |->
        IF q # r /\ call[q].step \in steps /\ call[q].photo = call[r].photo
        THEN [call[q] EXCEPT !.old = TRUE] ELSE call[q]]

Tells(r, kind) ==
    raced' = IF call[r].old THEN raced \cup {kind} ELSE raced

(* Mutant: the favorite is looked up by session alone. *)
FavoriteReadsAny(r) ==
    /\ At(r, "favorite") /\ call[r].photo \in shown
    /\ \E p \in Photo :
          /\ fav[p] # 0 \/ \A q \in Photo : fav[q] = 0
          /\ Goes(r, [step |-> "mark", photo |-> call[r].photo, row |-> fav[p], old |-> FALSE])
    /\ UNCHANGED <<party, status, link, photos, people, signing, match, marks>>

(* toggle_favorite finds the photo completed, and the favorite or none. *)
FavoriteReads(r) ==
    /\ At(r, "favorite") /\ call[r].photo \in shown
    /\ Goes(r, [step |-> "mark", photo |-> call[r].photo, row |-> fav[call[r].photo],
                old |-> FALSE])
    /\ UNCHANGED <<party, status, link, photos, people, signing, match, marks>>

(* An id that no row has, and no request holds as a copy. *)
FreshRow ==
    CHOOSE n \in RowIds :
        /\ \A p \in Photo : fav[p] # n
        /\ \A q \in Request : At(q, "mark") => call[q].row # n

(* The row that was found is deleted, if it is still there. *)
FavoriteRemoves(r) ==
    /\ At(r, "mark") /\ call[r].row # 0
    /\ fav' = [p \in Photo |-> IF fav[p] = call[r].row THEN 0 ELSE fav[p]]
    /\ likes' = likes \ {call[r].photo}
    /\ Tells(r, "favorite")
    /\ call' = [Others(r, {"mark"}) EXCEPT ![r] = [step |-> "off"]]
    /\ UNCHANGED <<party, status, link, photos, people, signing, match, shared, flips>>

(* uq_favorites_couple_session_photo and the foreign key decide on an insert. *)
FavoriteAdds(r) ==
    LET p == IF At(r, "mark") THEN call[r].photo ELSE 0 IN
    /\ At(r, "mark") /\ call[r].row = 0
    /\ p \in rows /\ fav[p] = 0
    /\ fav' = [fav EXCEPT ![p] = FreshRow]
    /\ likes' = likes \cup {p}
    /\ Tells(r, "favorite")
    /\ call' = [Others(r, {"mark"}) EXCEPT ![r] = [step |-> "off"]]
    /\ UNCHANGED <<party, status, link, photos, people, signing, match, shared, flips>>

(* toggle_share finds the photo completed.  Its row is in the session already, *)
(* so the flag is the one that was loaded with it.                             *)
ShareReads(r) ==
    /\ At(r, "share") /\ call[r].photo \in shown
    /\ Goes(r, [call[r] EXCEPT !.step = "flip"])
    /\ UNCHANGED <<party, status, link, photos, people, signing, match, marks>>

ShareCommits(r) ==
    LET p == IF At(r, "flip") THEN call[r].photo ELSE 0 IN
    /\ At(r, "flip") /\ p \in rows
    /\ shared' = IF call[r].was THEN shared \ {p} ELSE shared \cup {p}
    /\ flips' = IF p \in flips THEN flips \ {p} ELSE flips \cup {p}
    /\ Tells(r, "share")
    /\ call' = [Others(r, {"share", "flip"}) EXCEPT ![r] = [step |-> "off"]]
    /\ UNCHANGED <<party, status, link, photos, people, signing, match, fav, likes>>

Favorites(r) ==
    \/ \E p \in Photo : ToggleBegins(r, p, "favorite")
    \/ FavoriteReads(r) \/ FavoriteRemoves(r) \/ FavoriteAdds(r)

Shares(r) ==
    \/ \E p \in Photo : ToggleBegins(r, p, "share")
    \/ ShareReads(r) \/ ShareCommits(r)

Toggle(r) == Favorites(r) \/ Shares(r)

(* A request fails: the photo is not there, a constraint is broken, an update    *)
(* finds no row, or the connection is lost.  What it has committed stays.        *)
Fails(r) ==
    /\ ~At(r, "off") /\ Answers(r)
    /\ UNCHANGED <<party, status, link, photos, people, signing, match, marks>>

------------------------------------------------------------------------------
(* The event behind the gallery *)

(* What a stored or unfinished match was read from has changed.  (history) *)
Disturbs ==
    /\ moved' = TRUE
    /\ call' = Outdate(call, {"ids", "save"})

(* update_settings *)
UpdateSettings ==
    /\ link' \in BOOLEAN
    /\ UNCHANGED <<party, status, photos, people, signing, match, marks, call>>

(* toggle_link *)
SwitchLink ==
    /\ link' = ~link
    /\ UNCHANGED <<party, status, photos, people, signing, match, marks, call>>

(* start_face_processing, or the processing of photos that are not completed. *)
Reopens ==
    /\ status = "ready" /\ status' = "processing"
    /\ UNCHANGED <<party, link, photos, people, signing, match, marks, call>>

(* A face is found: its cluster is one of the event's or a new one.  Only the *)
(* guest's requests read clusters; for the others there are none.             *)
FaceJoins(p, c) ==
    /\ party = "guest" /\ status = "processing" /\ p \in shown /\ c \notin faces[p]
    /\ c \in live \/ \A r \in Request : At(r, "ids") \/ At(r, "save") => c \notin call[r].hits
    /\ c \in live \/ c \notin matched
    /\ faces' = [faces EXCEPT ![p] = @ \cup {c}] /\ live' = live \cup {c}
    /\ Disturbs
    /\ UNCHANGED <<party, status, link, photos, signing, matched, count, marks>>

(* _handle_merged: the faces of d move to c, and d is deleted. *)
Merges(c, d) ==
    /\ status = "processing" /\ c \in live /\ d \in live \ {c}
    /\ faces' = [p \in Photo |-> IF d \in faces[p] THEN (faces[p] \ {d}) \cup {c}
                                 ELSE faces[p]]
    /\ live' = live \ {d}
    /\ Disturbs
    /\ UNCHANGED <<party, status, link, photos, signing, matched, count, marks>>

(* delete_photos; embeddings and favorites go by their foreign keys, clusters stay. *)
DeletePhoto(p) ==
    /\ p \in rows
    /\ rows' = rows \ {p} /\ shown' = shown \ {p}
    /\ faces' = [faces EXCEPT ![p] = {}] /\ fav' = [fav EXCEPT ![p] = 0]
    /\ shared' = shared \ {p} /\ flips' = flips \ {p} /\ likes' = likes \ {p}
    /\ Disturbs
    /\ UNCHANGED <<party, status, link, live, signing, matched, count, raced>>

(* archive_event deletes embeddings and clusters; sessions and marks stay. *)
Archives ==
    /\ status # "archived" /\ status' = "archived"
    /\ shown' = {} /\ live' = {} /\ faces' = [p \in Photo |-> {}]
    /\ Disturbs
    /\ UNCHANGED <<party, link, rows, signing, matched, count, marks>>

Restores ==
    /\ status = "archived" /\ status' = "processing"
    /\ UNCHANGED <<party, link, photos, people, signing, match, marks, call>>

Completes(p) ==
    /\ status = "processing" /\ p \in rows \ shown /\ shown' = shown \cup {p}
    /\ UNCHANGED <<party, status, link, rows, people, signing, match, marks, call>>

Ready ==
    /\ status = "processing" /\ shown = rows /\ status' = "ready"
    /\ UNCHANGED <<party, link, photos, people, signing, match, marks, call>>

Behind ==
    \/ UpdateSettings \/ SwitchLink \/ Reopens \/ Archives \/ Restores \/ Ready
    \/ \E p \in Photo : DeletePhoto(p) \/ Completes(p)
    \/ \E p \in Photo, c \in Cluster : FaceJoins(p, c)
    \/ \E c, d \in Cluster : Merges(c, d)

Next ==
    \/ \E r \in Request : SignIn(r) \/ Selfie(r) \/ Toggle(r) \/ Fails(r)
    \/ AskElsewhere \/ CodeExpires \/ Behind

Spec == Init /\ [][Next]_vars

------------------------------------------------------------------------------

(* The stored match is what the guest is shown: the number of photos that the    *)
(* photographer's list of guests gives is the number in the guest's gallery,     *)
(* and the clusters are there, as long as nothing has changed them since the     *)
(* selfie was matched and no other selfie of the guest was saved meanwhile.      *)
CountIsServed ==
    ~moved => matched \subseteq live /\ count = Cardinality(Showing(matched))

(* The couple's marks are as they were answered, unless two toggles of a photo    *)
(* overlapped: a photo is shared with the guests when it was toggled an odd        *)
(* number of times (couple_service.py:250), and a favorite when that was answered  *)
(* last (:222); a removal that is late answers "removed" about a row that was      *)
(* removed and added again meanwhile.                                              *)
MarksAsAnswered ==
    /\ "share" \notin raced => shared = flips
    /\ "favorite" \notin raced => likes = {p \in Photo : fav[p] # 0}
=============================================================================
