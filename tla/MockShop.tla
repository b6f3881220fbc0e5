------------------------------ MODULE MockShop ------------------------------
(***************************************************************************)
(* A booking attempt with a coupon, end to end: get_coupon_pick and        *)
(* pick_best, the adapter of the mock site, the script of its pages and    *)
(* its server, whose state the tests change over the admin API meanwhile.  *)
(*                                                                         *)
(* The server answers each request under its lock, in one step.  A page is *)
(* what the server said when it was loaded.  A request is under way until  *)
(* it is answered, and may be lost when its page reloads or closes.        *)
(***************************************************************************)
EXTENDS Naturals, FiniteSets

CONSTANTS
    Coupons,        \* coupon ids
    Catalogues,     \* bound: lists the tests put up
    MaxChanges,     \* bound: admin requests and expiries during the attempt
    NoCoupon        \* None

\* present in the list, received, behind a gate, free to receive, of too high a
\* minimum for this amount, and the discount on it
Entries == [there : BOOLEAN, held : BOOLEAN, gated : BOOLEAN, free : BOOLEAN,
            short : BOOLEAN, discount : Nat]

ASSUME ShopAssumption ==
    /\ Catalogues \subseteq [Coupons -> Entries]
    /\ MaxChanges \in Nat
    /\ NoCoupon \notin Coupons

VARIABLES
    \* the server
    isOpen, slot,           \* booking has begun; the wanted time is free
    payment, captcha,       \* require_payment, require_captcha
    coupons, expired,       \* the list; those whose time is over
    booked,                 \* the last reservation: made or not, with which coupon
    changes,                \* counter of the bound
    \* under way
    downloads,              \* coupons asked for
    confirm,                \* the confirmation: not sent, sent, accepted, refused
    \* the attempt
    dry, step,
    known, todo,            \* coupons as last read; those still to be asked for
    page,                   \* what the open page was loaded with
    pick, selected,         \* the coupon chosen; the one on the form
    report,                 \* what the caller is told
    \* ghosts
    quiet,                  \* nothing has changed at the shop since the coupons were read
    assured                 \* nor since the coupon on the form was verified

server == <<isOpen, slot, payment, captcha, coupons, expired>>
wire == <<downloads, confirm>>
form == <<page, pick, selected>>
vars == <<isOpen, slot, payment, captcha, coupons, expired, booked, changes, downloads, confirm,
          dry, step, known, todo, page, pick, selected, report, quiet, assured>>

Steps == {"LIST", "SHOP", "DOWNLOAD", "PICK", "GOTO", "SELECT", "RESERVE", "CONFIRM", "WAIT", "DONE"}
Unreported == [outcome |-> "NONE", coupon |-> NoCoupon]

-----------------------------------------------------------------------------
(* coupon_utils; the server has the same rules of its own *)

IsApplicable(c, list) == list[c].there /\ ~list[c].gated /\ c \notin expired /\ ~list[c].short
Applicable(list) == {c \in Coupons : IsApplicable(c, list)}

\* Mutant: the minimum amount is not looked at
M_BestPicks(list) ==
    LET cs == {c \in Coupons : list[c].there /\ ~list[c].gated /\ c \notin expired} IN
    IF cs = {} THEN {NoCoupon}
    ELSE {c \in cs : \A d \in cs : list[d].discount <= list[c].discount}

\* pick_best: whether the coupon has been received is not asked
BestPicks(list) ==
    LET cs == Applicable(list) IN
    IF cs = {} THEN {NoCoupon}
    ELSE {c \in cs : \A d \in cs : list[d].discount <= list[c].discount}

\* _page, _coupon_row_html
Receivable(c) ==
    /\ coupons[c].there /\ ~coupons[c].held /\ coupons[c].free
    /\ ~coupons[c].gated /\ c \notin expired
Applies(c) == coupons[c].there /\ coupons[c].held /\ ~coupons[c].gated /\ c \notin expired

PageNow == [payment |-> payment, captcha |-> captcha,
            receive |-> {c \in Coupons : isOpen /\ Receivable(c)},
            apply |-> {c \in Coupons : isOpen /\ Applies(c)}]
BlankPage == [payment |-> FALSE, captcha |-> FALSE, receive |-> {}, apply |-> {}]

-----------------------------------------------------------------------------
Init ==
    /\ isOpen \in BOOLEAN /\ slot \in BOOLEAN
    /\ payment \in BOOLEAN /\ captcha \in BOOLEAN
    /\ coupons \in Catalogues
    /\ expired \in SUBSET Coupons
    /\ booked = [made |-> FALSE, coupon |-> NoCoupon]
    /\ changes = 0
    /\ downloads = {} /\ confirm = "NO"
    /\ dry \in BOOLEAN
    /\ step = IF dry THEN "GOTO" ELSE "LIST"
    /\ known = coupons /\ todo = {}
    /\ page = BlankPage
    /\ pick = NoCoupon /\ selected = NoCoupon
    /\ report = Unreported
    /\ quiet = TRUE /\ assured = TRUE

AttemptOnly == UNCHANGED <<server, booked, changes, dry>>

-----------------------------------------------------------------------------
(* get_coupon_pick *)

\* list_coupons
List ==
    /\ step = "LIST"
    /\ known' = coupons
    /\ quiet' = TRUE
    /\ todo' = {c \in Coupons : /\ coupons[c].there /\ ~coupons[c].held
                                /\ coupons[c].free /\ ~coupons[c].gated}
    /\ step' = IF todo' = {} THEN "PICK" ELSE "SHOP"
    /\ UNCHANGED <<wire, form, report, assured>> /\ AttemptOnly

\* download_free_coupons: the page, a click on each button that is there, the list again
OpenShop ==
    /\ step = "SHOP"
    /\ page' = PageNow
    /\ step' = "DOWNLOAD"
    /\ UNCHANGED <<wire, known, todo, pick, selected, report, quiet, assured>> /\ AttemptOnly

ClickReceive(c) ==
    /\ step = "DOWNLOAD"
    /\ c \in todo
    /\ todo' = todo \ {c}
    /\ downloads' = IF c \in page.receive THEN downloads \cup {c} ELSE downloads
    /\ UNCHANGED <<confirm, step, known, form, report, quiet, assured>> /\ AttemptOnly

\* The answers to the clicks are not waited for
ListAgain ==
    /\ step = "DOWNLOAD"
    /\ todo = {}
    /\ known' = coupons
    /\ step' = "PICK"
    /\ UNCHANGED <<wire, todo, form, report, quiet, assured>> /\ AttemptOnly

Pick ==
    /\ step = "PICK"
    /\ pick' \in BestPicks(known)
    /\ step' = "GOTO"
    /\ UNCHANGED <<wire, known, todo, page, selected, report, quiet, assured>> /\ AttemptOnly

\* Any failure: go on without a coupon
CouponsFail ==
    /\ step \in {"LIST", "SHOP", "DOWNLOAD"}
    /\ todo' = {}
    /\ step' = "GOTO"
    /\ UNCHANGED <<wire, known, form, report, quiet, assured>> /\ AttemptOnly

-----------------------------------------------------------------------------
(* MockBookingAdapter.reserve, dry_run_reserve *)

Ends(outcome, c) ==
    /\ report' = [outcome |-> outcome, coupon |-> c]
    /\ step' = "DONE"

Goto ==
    /\ step = "GOTO"
    /\ page' = PageNow
    /\ IF ~isOpen THEN Ends("NOT_OPEN", NoCoupon)
       ELSE IF ~slot THEN Ends("UNAVAILABLE", NoCoupon)
       ELSE step' = "SELECT" /\ UNCHANGED report
    /\ UNCHANGED <<wire, known, todo, pick, selected, quiet, assured>> /\ AttemptOnly

\* Mutant: a coupon that cannot be applied is left out
M_SelectCoupon ==
    /\ step = "SELECT"
    /\ step' = "RESERVE"
    /\ selected' = IF pick = NoCoupon \/ pick \notin page.apply THEN NoCoupon ELSE pick
    /\ assured' = TRUE
    /\ UNCHANGED <<wire, known, todo, page, pick, report, quiet>> /\ AttemptOnly

\* _select_coupon_or_raise: verified with the server, applied on the page
SelectCoupon ==
    /\ step = "SELECT"
    /\ IF pick = NoCoupon THEN step' = "RESERVE" /\ UNCHANGED <<selected, report, assured>>
       ELSE IF IsApplicable(pick, coupons) /\ coupons[pick].held /\ pick \in page.apply
       THEN step' = "RESERVE" /\ selected' = pick /\ assured' = TRUE /\ UNCHANGED report
       ELSE Ends("COUPON", NoCoupon) /\ UNCHANGED <<selected, assured>>
    /\ UNCHANGED <<wire, known, todo, page, pick, quiet>> /\ AttemptOnly

\* The page's script shows a panel by what the page was loaded with; the summary
\* it shows is what the adapter selected
PressReserve ==
    /\ step = "RESERVE"
    /\ IF page.payment THEN Ends("GATE", NoCoupon)
       ELSE IF page.captcha THEN Ends("HUMAN", NoCoupon)
       ELSE IF dry THEN Ends("READY", NoCoupon)
       ELSE step' = "CONFIRM" /\ UNCHANGED report
    /\ UNCHANGED <<wire, known, todo, form, quiet, assured>> /\ AttemptOnly

PressConfirm ==
    /\ step = "CONFIRM"
    /\ confirm' = "SENT"
    /\ step' = "WAIT"
    /\ UNCHANGED <<downloads, known, todo, form, report, quiet, assured>> /\ AttemptOnly

\* Mutant: reports the coupon it selected
M_SeeSuccess ==
    /\ step = "WAIT"
    /\ confirm = "ACCEPTED"
    /\ Ends("RESERVED", selected)
    /\ UNCHANGED <<wire, known, todo, form, quiet, assured>> /\ AttemptOnly

SeeSuccess ==
    /\ step = "WAIT"
    /\ confirm = "ACCEPTED"
    /\ Ends("RESERVED", booked.coupon)
    /\ UNCHANGED <<wire, known, todo, form, quiet, assured>> /\ AttemptOnly

\* Mutant: no answer is taken for a refusal
M_Fails ==
    /\ step \in {"GOTO", "SELECT", "RESERVE", "CONFIRM", "WAIT"}
    /\ Ends("UNAVAILABLE", NoCoupon)
    /\ UNCHANGED <<wire, known, todo, form, quiet, assured>> /\ AttemptOnly

\* An element does not appear in time, or any call raises
Fails ==
    /\ step \in {"GOTO", "SELECT", "RESERVE", "CONFIRM", "WAIT"}
    /\ Ends("ERROR", NoCoupon)
    /\ UNCHANGED <<wire, known, todo, form, quiet, assured>> /\ AttemptOnly

-----------------------------------------------------------------------------
(* The server *)

Unattended == UNCHANGED <<dry, known, todo, pick, selected, report, quiet, assured>>

\* _handle_coupon_download; the page reloads when it is still open
ServeDownload(c) ==
    /\ c \in downloads
    /\ UNCHANGED <<isOpen, slot, payment, captcha, expired, booked, changes, confirm, step>>
    /\ downloads' = downloads \ {c}
    /\ IF coupons[c].there /\ ~coupons[c].gated /\ c \notin expired /\ coupons[c].free
       THEN /\ coupons' = [coupons EXCEPT ![c].held = TRUE]
            /\ page' = IF step = "DOWNLOAD" THEN PageNow' ELSE page
       ELSE UNCHANGED <<coupons, page>>
    /\ Unattended

LoseDownload(c) ==
    /\ c \in downloads
    /\ downloads' = downloads \ {c}
    /\ UNCHANGED <<server, booked, changes, confirm, step, page>> /\ Unattended

\* _handle_confirm: a coupon that cannot be used any more is left out
ServeConfirm ==
    /\ confirm = "SENT"
    /\ IF isOpen /\ slot
       THEN /\ confirm' = "ACCEPTED"
            /\ slot' = FALSE
            /\ booked' = [made |-> TRUE,
                          coupon |-> IF selected # NoCoupon /\ coupons[selected].held
                                          /\ IsApplicable(selected, coupons)
                                     THEN selected ELSE NoCoupon]
       ELSE confirm' = "REFUSED" /\ UNCHANGED <<slot, booked>>
    /\ UNCHANGED <<isOpen, payment, captcha, coupons, expired, changes, downloads, step, page>>
    /\ Unattended

-----------------------------------------------------------------------------
(* Tests and time *)

Change ==
    /\ changes < MaxChanges
    /\ changes' = changes + 1
    /\ quiet' = FALSE /\ assured' = FALSE
    /\ UNCHANGED <<booked, wire, dry, step, known, todo, form, report>>

AdminOpen ==
    /\ Change
    /\ isOpen' = TRUE
    /\ UNCHANGED <<slot, payment, captcha, coupons, expired>>

AdminSlots ==
    /\ Change
    /\ slot' \in BOOLEAN
    /\ UNCHANGED <<isOpen, payment, captcha, coupons, expired>>

AdminGate ==
    /\ Change
    /\ payment' \in BOOLEAN /\ captcha' \in BOOLEAN
    /\ UNCHANGED <<isOpen, slot, coupons, expired>>

AdminCoupons ==
    /\ Change
    /\ coupons' \in Catalogues
    /\ UNCHANGED <<isOpen, slot, payment, captcha, expired>>

AdminReset ==
    /\ Change
    /\ isOpen' = FALSE /\ slot' = TRUE
    /\ payment' = FALSE /\ captcha' = FALSE
    /\ coupons' = [c \in Coupons |-> [coupons[c] EXCEPT !.there = FALSE]]
    /\ UNCHANGED expired

Expire(c) ==
    /\ Change
    /\ expired' = expired \cup {c}
    /\ UNCHANGED <<isOpen, slot, payment, captcha, coupons>>

-----------------------------------------------------------------------------
Attempt ==
    \/ List \/ OpenShop \/ ListAgain \/ Pick \/ CouponsFail
    \/ \E c \in Coupons : ClickReceive(c)
    \/ Goto \/ SelectCoupon \/ PressReserve \/ PressConfirm \/ SeeSuccess \/ Fails

Next ==
    \/ Attempt
    \/ \E c \in Coupons : ServeDownload(c) \/ LoseDownload(c) \/ Expire(c)
    \/ ServeConfirm
    \/ AdminOpen \/ AdminSlots \/ AdminGate \/ AdminCoupons \/ AdminReset

Spec == Init /\ [][Next]_vars

\* Every wait of the adapter has a timeout
FairSpec == Spec /\ WF_vars(Attempt)
=============================================================================
