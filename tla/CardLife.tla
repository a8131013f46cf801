------------------------------- MODULE CardLife -------------------------------
(***************************************************************************)
(* What Matthew is promised of a card and of its text, without proposals,  *)
(* ids, batches of messages, retries or crashes: the text only grows, one  *)
(* message at a time, and only while the card is drafted; an offer binds   *)
(* the whole text and is shown from its first part; an offer is granted    *)
(* only when all of it was shown; and what was granted or closed stays so. *)
(***************************************************************************)
EXTENDS Naturals, Sequences

CONSTANTS
    Parts,      \* the parts in which an offer is shown
    Messages,   \* what may be added to a text
    First       \* the cards that are there from the beginning

VARIABLES
    text,   \* the text of each card that has one, a sequence of messages
    card    \* each card: its state, the text it offers, and how many parts of it were shown

vars == <<text, card>>

Drafted == [state |-> "drafting", offer |-> <<>>, shown |-> 0]
Closed == [state |-> "closed", offer |-> <<>>, shown |-> 0]

Init ==
    /\ text = [c \in {} |-> <<>>]
    /\ card = [c \in First |-> Drafted]

Becomes(c, row) == card' = [card EXCEPT ![c] = row] /\ UNCHANGED text

\* A card gets its first text, before or after it is made.
Begin(c) ==
    /\ c \notin DOMAIN text /\ text'[c] # <<>>
    /\ c \in DOMAIN card => card[c] = Drafted
    /\ text' = [d \in DOMAIN text \cup {c} |-> IF d = c THEN text'[c] ELSE text[d]]
    /\ UNCHANGED card

Make(c) ==
    /\ c \in DOMAIN text \ DOMAIN card
    /\ card' = [d \in DOMAIN card \cup {c} |-> IF d = c THEN Drafted ELSE card[d]]
    /\ UNCHANGED text

Add(c, m) ==
    /\ card[c] = Drafted
    /\ text' = [text EXCEPT ![c] = Append(@, m)]
    /\ UNCHANGED card

Offer(c) ==
    /\ card[c] = Drafted
    /\ Becomes(c, [state |-> "offered", offer |-> text[c], shown |-> 0])

Show(c) ==
    /\ card[c].state = "offered" /\ card[c].shown < Parts
    /\ Becomes(c, [card[c] EXCEPT !.shown = @ + 1])

Reopen(c) == card[c].state = "offered" /\ Becomes(c, Drafted)

Grant(c) ==
    /\ card[c].state = "offered" /\ card[c].shown = Parts
    /\ Becomes(c, [card[c] EXCEPT !.state = "granted"])

Close(c) == card[c].state \in {"drafting", "offered"} /\ Becomes(c, Closed)

Next ==
    \/ \E c \in DOMAIN text' : Begin(c) \/ Make(c)
    \/ \E c \in DOMAIN card :
        \/ Show(c) \/ Reopen(c) \/ Grant(c) \/ Close(c)
        \/ c \in DOMAIN text /\ (Offer(c) \/ \E m \in Messages : Add(c, m))

Spec == Init /\ [][Next]_vars

=============================================================================
