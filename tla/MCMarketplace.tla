--------------------------- MODULE MCMarketplace ----------------------------
(***************************************************************************)
(* Marketplace on a small instance: one request at a time claims or        *)
(* resolves while another edits the post.  The behaviours start from an    *)
(* empty marketplace or, so that a batch of two with a release that fails  *)
(* is within reach, in the middle of one.                                  *)
(***************************************************************************)
EXTENDS Marketplace

CONSTANTS
  EditSlots,     \* request slots that carry the host's edits
  ClaimSlots,    \* request slots that carry claims and resolutions
  Newcomers      \* recipients who claim; the others only hold a reservation

\* Reached from MarketInit: of a post of three one portion is reserved when the
\* host's PATCH down to two reads the row; before its UPDATE is sent a newcomer
\* reserves the other two.
Crowded ==
  \E p \in EditSlots, l \in Listings, w \in Windows :
    LET read == Reserve(Posted(3, w), 1)
    IN  /\ clock = 0
        /\ listings = [[k \in Listings |-> NoRow] EXCEPT ![l] = Reserve(read, 2)]
        /\ claims = [k \in Listings |-> [r \in Recipients |->
             IF k # l THEN NoClaim
             ELSE [status |-> "pending", deadline |-> Hold,
                   quantity |-> IF r \in Newcomers THEN 2 ELSE 1]]]
        /\ lock = [k \in Listings |-> None]
        /\ txn = [[q \in Proc |-> NoTxn] EXCEPT ![p] =
             [NoTxn EXCEPT !.pc = "waiting", !.listing = l, !.actor = Host,
                           !.seen = read, !.new = ApplyNewTotal(read, 2)]]
        /\ due = [q \in Proc |-> {}]
        /\ sweepNow = [s \in Sweepers |-> 0]
        /\ phase = [s \in Sweepers |-> "asleep"]
        /\ batch = [s \in Sweepers |-> {}]
        /\ snap = [s \in Sweepers |-> NoSnap]

\* What the slots carry.  A request that would be refused for want of a right is
\* left to ClaimFlow's run.
Carried ==
  /\ \A p \in EditSlots : txn'[p].pc # "idle" => txn'[p].target = Absent
  /\ \A p \in ClaimSlots : txn'[p].pc # "idle" =>
       /\ txn'[p].target # Absent
       /\ txn'[p].recipient \in Newcomers
       /\ txn'[p].target \in ClaimStatus \ {"pending"} =>
            (txn'[p].actor = Host) = (txn'[p].target # "cancelled")

MCSpec ==
  /\ MarketInit \/ Crowded
  /\ [][MarketNext /\ Carried]_allVars
  /\ MarketFairness
=============================================================================
