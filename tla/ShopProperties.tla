--------------------------- MODULE ShopProperties ---------------------------
(***************************************************************************)
(* What an attempt with a coupon should ensure.                            *)
(***************************************************************************)
EXTENDS MockShop

\* Every variable holds what the server, the page and the adapter can hold.
TypeOK ==
    /\ {isOpen, slot, payment, captcha, dry, quiet, assured} \subseteq BOOLEAN
    /\ coupons \in [Coupons -> Entries] /\ known \in [Coupons -> Entries]
    /\ expired \subseteq Coupons
    /\ booked \in [made : BOOLEAN, coupon : Coupons \cup {NoCoupon}]
    /\ changes \in 0..MaxChanges
    /\ downloads \subseteq Coupons /\ todo \subseteq Coupons
    /\ confirm \in {"NO", "SENT", "ACCEPTED", "REFUSED"}
    /\ step \in Steps
    /\ page \in [payment : BOOLEAN, captcha : BOOLEAN,
                 receive : SUBSET Coupons, apply : SUBSET Coupons]
    /\ pick \in Coupons \cup {NoCoupon} /\ selected \in Coupons \cup {NoCoupon}
    /\ report.outcome \in {"NONE", "RESERVED", "NOT_OPEN", "UNAVAILABLE", "COUPON",
                           "GATE", "HUMAN", "ERROR", "READY"}
    /\ report.coupon \in Coupons \cup {NoCoupon}

\* The coupon that is reported is the one the shop applied, and no other than the
\* one that was picked (_reserve_inner reads it off the success panel).
CouponIsHonest ==
    /\ report.outcome = "RESERVED" => booked.made /\ report.coupon = booked.coupon
    /\ booked.coupon \in {pick, NoCoupon}

\* Without the picked coupon the attempt books only if the shop changed after the
\* coupon was verified: the server leaves out what it no longer accepts
\* (_select_coupon_or_raise: no booking without the coupon).
FullPriceHasCause ==
    booked.made /\ pick # NoCoupon /\ booked.coupon = NoCoupon => ~assured

\* At a shop that does not change, a picked coupon stops the attempt only if it had
\* not been received yet when the list was read again: pick_best does not ask, and
\* download_free_coupons does not wait for the answers to its clicks.
CouponStopHasCause ==
    report.outcome = "COUPON" /\ quiet => ~known[pick].held

\* A dry run asks the shop for nothing: no coupon, no confirmation.
DryRunAsksNothing == dry => downloads = {} /\ confirm = "NO" /\ selected = NoCoupon

Contract == INSTANCE AttemptContract WITH
                outcome <- report.outcome,
                booked <- booked.made

\* The attempt implements AttemptContract, as the Naver adapter's does, and ends.
KeepsContract == Contract!FairSpec
=============================================================================
