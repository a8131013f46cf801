--------------------------- MODULE CardLifeProofs ---------------------------
(***************************************************************************)
(* Chat keeps the promise that CardLife states, for every value of its     *)
(* constants.                                                              *)
(*                                                                         *)
(* Beside what ChatProofs knows of the queue and of the texts, the proof   *)
(* needs to know that the card a handler holds is still as the handler     *)
(* found it when the writes come: one thread does all of them, but a       *)
(* handler decides several steps before it writes.                         *)
(***************************************************************************)
EXTENDS ChatProofs

\* The card in hand, until what was decided of it is written.
LifeInv ==
    /\ Len(said) <= MaxMessages
    /\ \A c \in DOMAIN cards : cards[c].status \in DOMAIN States
    /\ at \in {"draft", "model"} => cards[hand.card].status = "drafting"
    /\ at \in {"source", "put"} =>
        IF hand.new THEN hand.card \notin DOMAIN cards ELSE cards[hand.card].status = "drafting"
    /\ at = "source" /\ hand.new /\ hand.card \in DOMAIN sources => hand.pid = sources[hand.card]
    /\ \A c \in expiring :
        at = "expire" \/ (at = "note" /\ c # hand.card) => cards[c].status = "awaiting_yes"

Deciding == {"draft", "model", "source", "put", "expire", "note"}

-----------------------------------------------------------------------------
(* Every step keeps the invariant *)

\* A new status changes nothing else of a card.
LEMMA NewStatus ==
    ASSUME IInv, NEW c \in DOMAIN cards, NEW s, SetStatus(c, s)
    PROVE  /\ DOMAIN cards' = DOMAIN cards /\ cards'[c].status = s
           /\ \A d \in DOMAIN cards : d # c => cards'[d] = cards[d]
           /\ \A f \in Fields \ {"status"} : cards'[c][f] = cards[c][f]
<1>1. DOMAIN cards[c] = Fields
  BY DEF IInv, CardInv, CardOK
<1>2. /\ DOMAIN cards' = DOMAIN cards /\ cards'[c] = [cards[c] EXCEPT !.status = s]
      /\ \A d \in DOMAIN cards : d # c => cards'[d] = cards[d]
  BY DEF SetStatus
<1> QED BY <1>1, <1>2 DEF Fields

\* A part that is sent counts, and changes nothing else but the buttons.
LEMMA Delivers ==
    ASSUME IInv, PartSent, ~UNCHANGED cards
    PROVE  /\ DOMAIN cards' = DOMAIN cards /\ hand.card \in DOMAIN cards
           /\ \A d \in DOMAIN cards : d # hand.card => cards'[d] = cards[d]
           /\ cards[hand.card].status = "awaiting_yes" /\ cards[hand.card].seen \in Nat
           /\ cards[hand.card].seen < Parts
           /\ cards'[hand.card].seen = cards[hand.card].seen + 1
           /\ \A f \in Fields \ {"seen", "yes", "buttons"} :
                cards'[hand.card][f] = cards[hand.card][f]
<1>0. PICK c, part : c = hand.card /\ part = hand.part + 1
  OBVIOUS
<1>1. /\ at = "show" /\ c \in DOMAIN cards /\ hand.part \in Nat /\ hand.part < Parts
      /\ cards[c].status = "awaiting_yes" /\ cards[c].seen = hand.part
      /\ DOMAIN cards[c] = Fields
  BY <1>0 DEF PartSent, IInv, PlaceInv, HandInv, CardInv, CardOK
<1>2. cards' = [cards EXCEPT ![c].seen = @ + 1, ![c].yes = (part = Parts),
                             ![c].buttons = @ \/ part = Parts]
  BY <1>0 DEF PartSent
<1>3. /\ DOMAIN cards' = DOMAIN cards
      /\ \A d \in DOMAIN cards : d # c => cards'[d] = cards[d]
      /\ \A f \in Fields \ {"seen", "yes", "buttons"} : cards'[c][f] = cards[c][f]
      /\ cards'[c].seen = cards[c].seen + 1
  BY <1>1, <1>2 DEF Fields
<1> QED BY <1>0, <1>1, <1>3

\* The states are those of the cards.
LEMMA StatesAre ==
    /\ DOMAIN States = {"drafting", "awaiting_yes", "granted", "dropped", "expired"}
    /\ States["drafting"] = "drafting" /\ States["awaiting_yes"] = "offered"
    /\ States["granted"] = "granted"
    /\ States["dropped"] = "closed" /\ States["expired"] = "closed"
  BY DEF States

\* When a handler has done its writes nothing is decided any more.
LEMMA LifeRests ==
    ASSUME LifeInv, at' \notin Deciding, UNCHANGED said,
           \A c \in DOMAIN cards' : cards'[c].status \in DOMAIN States
    PROVE  LifeInv'
  BY DEF LifeInv, Deciding

\* The chat, and the steps that end an item or ask.
LEMMA RestStep ==
    ASSUME IInv, LifeInv,
           \/ Says \/ FirstStart \/ Poll \/ StoreOffset \/ FileNote \/ AskQuestion
           \/ DraftUnavailable \/ DraftIncomplete \/ EditAsks \/ Raises \/ Crash
    PROVE  LifeInv'
<1>1. UNCHANGED cards /\ at' \notin Deciding
  BY DEF Says, FirstStart, Poll, StoreOffset, FileNote, AskQuestion, DraftUnavailable,
       DraftIncomplete, EditAsks, Raises, Crash, Done, store, daemon, Deciding
<1>2. CASE ~Says
  <2>1. UNCHANGED said
    BY <1>2 DEF FirstStart, Poll, StoreOffset, FileNote, AskQuestion, DraftUnavailable,
         DraftIncomplete, EditAsks, Raises, Crash, chat
  <2> QED BY <1>1, <2>1, LifeRests DEF LifeInv
<1>3. CASE Says
  <2>1. PICK e : said' = Append(said, e)
    BY <1>3 DEF Says
  <2>2. Len(said) \in Nat /\ Len(said') = Len(said) + 1
    <3>1. IsSeq(said)
      BY DEF IInv, QueueInv
    <3> QED BY <2>1, <3>1, AppendAny DEF IsSeq
  <2>3. Len(said') <= MaxMessages
    BY <1>3, <2>2, BoundsAssumption DEF Says
  <2> QED BY <1>1, <2>3 DEF LifeInv, Deciding
<1> QED BY <1>2, <1>3

\* A card is drafted, shown, dropped, edited or granted.
LEMMA DecideStep ==
    ASSUME IInv, LifeInv,
           \/ NoOwners \/ DraftStored \/ PartSent
           \/ \E c \in DOMAIN cards : TapYes(c) \/ TapEdit(c) \/ TapDrop(c)
    PROVE  LifeInv'
<1> USE StatesAre
<1>1. \A c \in DOMAIN cards : cards[c].status \in DOMAIN States /\ DOMAIN cards[c] = Fields
  BY DEF LifeInv, IInv, CardInv, CardOK
<1>2. CASE NoOwners
  <2>1. hand.card \in DOMAIN cards /\ SetStatus(hand.card, "dropped") /\ UNCHANGED said
        /\ at' \notin Deciding
    BY <1>2 DEF NoOwners, Done, Deciding, IInv, PlaceInv
  <2>2. \A c \in DOMAIN cards' : cards'[c].status \in DOMAIN States
    BY <1>1, <2>1, NewStatus
  <2> QED BY <2>1, <2>2, LifeRests
<1>3. CASE DraftStored
  <2>1. /\ UNCHANGED said /\ at' \notin Deciding
        /\ \E src, buttons, body :
             Put(hand.card, [NewCard(<<>>) EXCEPT !.status = "awaiting_yes", !.source = src,
                                !.body = body, !.buttons = buttons])
    BY <1>3 DEF DraftStored, Deciding, chat
  <2>2. PICK row : Put(hand.card, row) /\ row.status = "awaiting_yes" /\ DOMAIN row = Fields
    <3>1. PICK src, buttons, body :
             Put(hand.card, [NewCard(<<>>) EXCEPT !.status = "awaiting_yes", !.source = src,
                                !.body = body, !.buttons = buttons])
      BY <2>1
    <3> DEFINE r == [NewCard(<<>>) EXCEPT !.status = "awaiting_yes", !.source = src,
                                !.body = body, !.buttons = buttons]
    <3>2. r.status = "awaiting_yes" /\ DOMAIN r = Fields
      BY DEF NewCard, Fields
    <3> QED BY <3>1, <3>2
  <2>3. \A c \in DOMAIN cards' : c = hand.card \/ (c \in DOMAIN cards /\ cards'[c] = cards[c])
    BY <2>2 DEF Put
  <2>4. cards'[hand.card].status = "awaiting_yes"
    <3>1. cards'[hand.card] = row \/ \E k : cards'[hand.card] = [row EXCEPT !.kept = k]
      BY <2>2 DEF Put
    <3> QED BY <2>2, <3>1 DEF Fields
  <2> QED BY <1>1, <2>1, <2>3, <2>4, LifeRests
<1>4. CASE PartSent
  <2>1. hand.card \in DOMAIN cards /\ UNCHANGED said /\ at' \notin Deciding
    BY <1>4 DEF PartSent, Done, Deciding, IInv, PlaceInv
  <2>2. DOMAIN cards' = DOMAIN cards /\ \A c \in DOMAIN cards : cards'[c].status = cards[c].status
    <3>1. CASE UNCHANGED cards
      BY <3>1
    <3>2. CASE ~UNCHANGED cards
      BY <1>4, <3>2, Delivers DEF Fields
    <3> QED BY <3>1, <3>2
  <2> QED BY <1>1, <2>1, <2>2, LifeRests
<1>5. ASSUME NEW c \in DOMAIN cards, TapYes(c) \/ TapEdit(c) \/ TapDrop(c) PROVE LifeInv'
  <2>1. UNCHANGED said /\ at' \notin Deciding
    BY <1>5 DEF TapYes, TapEdit, TapDrop, Deciding, chat, daemon
  <2>2. PICK s \in {"granted", "expired", "drafting", "dropped"} : SetStatus(c, s)
    BY <1>5 DEF TapYes, TapEdit, TapDrop
  <2>3. \A d \in DOMAIN cards' : cards'[d].status \in DOMAIN States
    BY <1>1, <2>2, NewStatus
  <2> QED BY <2>1, <2>3, LifeRests
<1> QED BY <1>2, <1>3, <1>4, <1>5

\* The hourly pass.
LEMMA HourlyStep ==
    ASSUME IInv, LifeInv, Hourly
    PROVE  LifeInv'
<1> USE StatesAre
<1>1. \A c \in DOMAIN cards : cards[c].status \in DOMAIN States
  BY DEF LifeInv
<1>2. CASE ExpirePass
  <2>1. UNCHANGED <<said, cards>> /\ at' = "expire" /\ expiring' \subseteq Awaiting
    BY <1>2 DEF ExpirePass, chat, store
  <2> QED BY <1>1, <2>1 DEF LifeInv, Awaiting
<1>3. ASSUME NEW c \in expiring, Expire(c) PROVE LifeInv'
  <2>1. /\ UNCHANGED <<said, sources, expiring>> /\ at = "expire" /\ at' = "note"
        /\ SetStatus(c, "expired") /\ hand'.card = c /\ c \in DOMAIN cards
    BY <1>3 DEF Expire, chat, Idle, IInv, BodyInv
  <2>2. /\ DOMAIN cards' = DOMAIN cards /\ cards'[c].status = "expired"
        /\ \A d \in DOMAIN cards : d # c => cards'[d] = cards[d]
    BY <2>1, NewStatus
  <2>3. expiring \subseteq DOMAIN cards
    BY DEF IInv, BodyInv
  <2>4. \A d \in expiring : cards[d].status = "awaiting_yes"
    BY <2>1 DEF LifeInv
  <2>5. \A d \in DOMAIN cards' : cards'[d].status \in DOMAIN States
    BY <1>1, <2>2
  <2>6. \A d \in expiring' : d # hand'.card => cards'[d].status = "awaiting_yes"
    BY <2>1, <2>2, <2>3, <2>4
  <2> QED BY <2>1, <2>5, <2>6 DEF LifeInv
<1>4. CASE NoteExpired
  <2>1. /\ UNCHANGED <<said, cards>> /\ at = "note" /\ at' \in {"idle", "expire"}
        /\ expiring' = expiring \ {hand.card}
    BY <1>4 DEF NoteExpired, chat, store
  <2> QED BY <1>1, <2>1 DEF LifeInv
<1> QED BY <1>2, <1>3, <1>4 DEF Hourly

\* A text is taken up: a card it answers is drafted, and one it starts is new.
LEMMA TakesUp ==
    ASSUME IInv, ChainInv, LifeInv, CardCommand \/ Answers \/ FileObjective
    PROVE  LifeInv'
<1>1. UNCHANGED <<said, cards, sources>>
  BY DEF CardCommand, Answers, FileObjective, chat, store
<1>2. \A c \in DOMAIN cards : cards[c].status \in DOMAIN States
  BY DEF LifeInv
<1>3. CASE at' \notin Deciding
  BY <1>1, <1>2, <1>3, LifeRests
<1>4. CASE at' = "draft"
  <2>1. PICK c, a : hand' = [Idle EXCEPT !.card = c, !.answer = a] /\ cards[c].status = "drafting"
    BY <1>4 DEF CardCommand, Answers, FileObjective, Drafts, Done
  <2>2. hand'.card = c
    BY <2>1 DEF Idle
  <2> QED BY <1>1, <1>2, <1>4, <2>1, <2>2 DEF LifeInv
<1>5. CASE at' = "source"
  <2>1. \E c, p, then :
          /\ hand' = [Idle EXCEPT !.card = c, !.pid = p, !.new = TRUE, !.then = then]
          /\ c \notin DOMAIN cards /\ (c \in DOMAIN sources => sources[c] = p)
    <3>1. CASE CardCommand
      <4>1. PICK p : p = said[next].card
        OBVIOUS
      <4>2. /\ Referred \notin DOMAIN cards
            /\ hand' = [Idle EXCEPT !.card = Referred, !.pid = p, !.new = TRUE, !.then = "draft"]
        BY <1>5, <3>1, <4>1 DEF CardCommand, Drafts, Done
      <4>3. Referred = <<"made", p>>
        BY <4>1, <4>2 DEF Referred
      <4>4. <<"made", p>> \in DOMAIN sources => sources[<<"made", p>>] = p
        BY <4>2, <4>3 DEF ChainInv, SourceInv
      <4> QED BY <4>2, <4>3, <4>4
    <3>2. CASE FileObjective
      <4>1. /\ at \in {"classify", "items"}
            /\ \E p, then : hand' = [Idle EXCEPT !.card = <<"idea", next>>, !.pid = p,
                                                 !.new = TRUE, !.then = then]
        BY <3>2 DEF FileObjective, Classifies, Item
      <4>2. next \in Nat /\ next # 0 /\ at \notin Making
        BY <4>1 DEF IInv, QueueInv, Making
      <4>3. <<"idea", next>> # Legacy
        BY <4>2 DEF Legacy
      <4>4. \A c \in DOMAIN sources \cup DOMAIN cards :
                c[1] = "idea" /\ c # Legacy => c[2] < next \/ at \in Making
        BY DEF ChainInv, TurnInv
      <4>5. <<"idea", next>> \notin DOMAIN sources \cup DOMAIN cards
        BY <4>2, <4>3, <4>4
      <4> QED BY <4>1, <4>5
    <3> QED BY <1>5, <3>1, <3>2 DEF Answers, Drafts
  <2>2. PICK c, p, then :
          /\ hand' = [Idle EXCEPT !.card = c, !.pid = p, !.new = TRUE, !.then = then]
          /\ c \notin DOMAIN cards /\ (c \in DOMAIN sources => sources[c] = p)
    BY <2>1
  <2>3. hand'.card = c /\ hand'.pid = p /\ hand'.new
    BY <2>2 DEF Idle
  <2> QED BY <1>1, <1>2, <1>5, <2>2, <2>3 DEF LifeInv
<1>6. at' \in {"idle", "items", "classify", "draft", "source"}
  BY DEF CardCommand, Answers, FileObjective, Drafts, Done
<1> QED BY <1>3, <1>4, <1>5, <1>6 DEF Deciding

\* Its source is filed and set, and a new card is made.
LEMMA Binds ==
    ASSUME IInv, ChainInv, LifeInv, FileLegacy \/ Amend \/ SetSource \/ PutCard
    PROVE  LifeInv'
<1>1. UNCHANGED <<said, open>> /\ \A c \in DOMAIN cards : cards[c].status \in DOMAIN States
  BY DEF FileLegacy, Amend, SetSource, PutCard, chat, store, LifeInv
<1>2. CASE FileLegacy \/ Amend
  <2>1. UNCHANGED <<cards, sources>> /\ at = "draft" /\ at' = "source"
    BY <1>2 DEF FileLegacy, Amend, store
  <2>2. PICK p, then : hand' = [hand EXCEPT !.pid = p, !.then = then]
    BY <1>2 DEF FileLegacy, Amend
  <2>3. hand'.card = hand.card /\ hand'.new = hand.new
    BY <2>2 DEF IInv, HandInv
  <2>4. ~hand.new
    <3>1. CASE FileLegacy
      BY <2>1, <3>1 DEF FileLegacy, ChainInv, SourceInv
    <3>2. CASE Amend
      BY <3>2 DEF Amend, IInv, HandInv
    <3> QED BY <1>2, <3>1, <3>2
  <2>5. cards[hand.card].status = "drafting"
    BY <2>1 DEF LifeInv
  <2> QED BY <1>1, <2>1, <2>3, <2>4, <2>5 DEF LifeInv
<1>3. CASE SetSource
  <2>1. UNCHANGED <<cards, hand>> /\ at = "source" /\ at' = IF hand.new THEN "put" ELSE hand.then
    BY <1>3 DEF SetSource
  <2>2. CASE hand.new
    BY <1>1, <2>1, <2>2 DEF LifeInv
  <2>3. CASE ~hand.new
    <3>1. at' \in {"draft", "model"}
      BY <2>1, <2>3 DEF IInv, PlaceInv
    <3> QED BY <1>1, <2>1, <2>3, <3>1 DEF LifeInv
  <2> QED BY <2>2, <2>3
<1>4. CASE PutCard
  <2>1. /\ hand.card \notin DOMAIN cards /\ UNCHANGED hand /\ at' \in {"ask", "draft"}
        /\ \E body : Put(hand.card, NewCard(body))
    BY <1>4 DEF PutCard, LifeInv, IInv, PlaceInv
  <2>2. /\ DOMAIN cards' = DOMAIN cards \cup {hand.card}
        /\ \A c \in DOMAIN cards : cards'[c] = cards[c]
        /\ cards'[hand.card].status = "drafting"
    BY <2>1 DEF Put, NewCard
  <2> QED BY <1>1, <2>1, <2>2, StatesAre DEF LifeInv
<1> QED BY <1>2, <1>3, <1>4

\* Every step keeps what was decided.
LEMMA LifeStep == IInv /\ ChainInv /\ LifeInv /\ [Next]_vars => LifeInv'
<1> SUFFICES ASSUME IInv, ChainInv, LifeInv, [Next]_vars PROVE LifeInv'
  OBVIOUS
<1>1. CASE Next
  BY <1>1, RestStep, DecideStep, HourlyStep, TakesUp, Binds DEF Next, HandleText, Taps
<1>2. CASE UNCHANGED vars
  BY <1>2 DEF vars, chat, store, daemon, LifeInv
<1> QED BY <1>1, <1>2

-----------------------------------------------------------------------------
(* Every step maps to a step, or to none *)

\* The texts and the cards of the abstract specification.
TextsNow == [c \in DOMAIN sources |-> proposals[sources[c]]]
CardsNow == [c \in DOMAIN cards |-> Seen(cards[c])]

\* What is seen of a card.
LEMMA SeenOf ==
    ASSUME NEW row
    PROVE  /\ row.status = "drafting" => Seen(row) = L!Drafted
           /\ row.status \in {"dropped", "expired"} => Seen(row) = L!Closed
           /\ row.status = "awaiting_yes" =>
                Seen(row) = [state |-> "offered", offer |-> row.body, shown |-> row.seen]
           /\ row.status = "granted" =>
                Seen(row) = [state |-> "granted", offer |-> row.body, shown |-> row.seen]
  BY StatesAre DEF Seen, L!Drafted, L!Closed

\* A text stays as long as its source does: no step changes a stored proposal.
LEMMA TextsStay ==
    ASSUME IInv, ChainInv, [Next]_vars, UNCHANGED sources
    PROVE  TextsNow' = TextsNow
<1>1. \A p \in DOMAIN proposals : proposals'[p] = proposals[p]
  BY Stores
<1>2. \A c \in DOMAIN sources : sources[c] \in DOMAIN proposals
  BY DEF IInv, BodyInv
<1> QED BY <1>1, <1>2 DEF TextsNow

\* One card becomes another row, and the texts stay.
LEMMA Becoming ==
    ASSUME IInv, ChainInv, [Next]_vars, UNCHANGED sources,
           NEW c \in DOMAIN cards, DOMAIN cards' = DOMAIN cards,
           \A d \in DOMAIN cards : d # c => cards'[d] = cards[d],
           NEW row, Seen(cards'[c]) = row
    PROVE  L!Becomes(c, row)
<1>1. TextsNow' = TextsNow
  BY TextsStay
<1>2. CardsNow' = [CardsNow EXCEPT ![c] = row]
  <2>1. \A d \in DOMAIN cards : d # c => Seen(cards'[d]) = Seen(cards[d])
    OBVIOUS
  <2>2. CardsNow' = [d \in DOMAIN cards |-> Seen(cards'[d])]
    BY DEF CardsNow, Seen
  <2> QED BY <2>1, <2>2 DEF CardsNow
<1> QED BY <1>1, <1>2 DEF L!Becomes, TextsNow, CardsNow

\* A source that is set begins a text or adds a message to it.
LEMMA SetMaps ==
    ASSUME IInv, ChainInv, LifeInv, SetSource
    PROVE  L!Next \/ UNCHANGED L!vars
<1>0. PICK c, pid : c = hand.card /\ pid = hand.pid
  OBVIOUS
<1>1. /\ UNCHANGED <<cards, proposals>> /\ at = "source"
      /\ DOMAIN sources' = DOMAIN sources \cup {c} /\ sources'[c] = pid
      /\ \A d \in DOMAIN sources : d # c => sources'[d] = sources[d]
      /\ pid \in DOMAIN proposals
  BY <1>0 DEF SetSource, IInv, PlaceInv
<1>2. CardsNow' = CardsNow
  BY <1>1 DEF CardsNow, Seen
<1>3. c \in DOMAIN cards => CardsNow[c] = L!Drafted
  <2>1. c \in DOMAIN cards => cards[c].status = "drafting"
    BY <1>0, <1>1 DEF LifeInv
  <2> QED BY <2>1, SeenOf DEF CardsNow
<1>4. CASE c \notin DOMAIN sources
  <2>1. TextsNow'[c] # <<>> /\ c \in DOMAIN TextsNow'
    BY <1>1 DEF TextsNow, IInv, BodyInv, Bodies
  <2>2. TextsNow' = [d \in DOMAIN TextsNow \cup {c} |->
                        IF d = c THEN TextsNow'[c] ELSE TextsNow[d]]
    BY <1>1, <1>4 DEF TextsNow
  <2>3. L!Begin(c)
    BY <1>2, <1>3, <1>4, <2>1, <2>2 DEF L!Begin, TextsNow, CardsNow
  <2> QED BY <2>1, <2>3 DEF L!Next, TextsNow
<1>5. CASE c \in DOMAIN sources /\ sources'[c] = sources[c]
  <2>1. TextsNow' = TextsNow
    BY <1>1, <1>5 DEF TextsNow
  <2> QED BY <1>2, <2>1 DEF L!vars, TextsNow, CardsNow
<1>6. CASE c \in DOMAIN sources /\ sources'[c] # sources[c]
  <2>1. PICK m \in DOMAIN said : proposals'[sources'[c]] = Append(proposals[sources[c]], m)
    BY <1>6, SourceGrows DEF Next, HandleText
  <2>2. m \in 0..MaxMessages
    <3>1. IsSeq(said)
      BY DEF IInv, QueueInv
    <3>2. DOMAIN said = 1..Len(said) /\ Len(said) \in Nat
      BY <3>1, AppendAny
    <3> QED BY <3>2, BoundsAssumption DEF LifeInv
  <2>3. c \in DOMAIN cards
    <3>1. hand.new => pid = sources[c]
      BY <1>0, <1>1, <1>6 DEF LifeInv
    <3> QED BY <1>0, <1>1, <1>6, <3>1 DEF IInv, PlaceInv
  <2>4. TextsNow' = [TextsNow EXCEPT ![c] = Append(@, m)]
    <3>1. TextsNow'[c] = Append(TextsNow[c], m)
      BY <1>1, <1>6, <2>1 DEF TextsNow
    <3>2. TextsNow' = [TextsNow EXCEPT ![c] = TextsNow'[c]]
      BY <1>1, <1>6 DEF TextsNow
    <3> QED BY <3>1, <3>2
  <2>5. L!Add(c, m)
    BY <1>2, <1>3, <2>3, <2>4 DEF L!Add, TextsNow, CardsNow
  <2> QED BY <1>6, <2>2, <2>3, <2>5 DEF L!Next, TextsNow, CardsNow
<1> QED BY <1>4, <1>5, <1>6

\* A card that is put for the first time is made, with its text there.
LEMMA PutMaps ==
    ASSUME IInv, ChainInv, LifeInv, PutCard
    PROVE  L!Next
<1>0. PICK c : c = hand.card
  OBVIOUS
<1>1. /\ UNCHANGED sources /\ c \notin DOMAIN cards /\ c \in DOMAIN sources
      /\ \E body : Put(c, NewCard(body))
  BY <1>0 DEF PutCard, LifeInv, IInv, PlaceInv, ChainInv, SourceInv
<1>2. /\ DOMAIN cards' = DOMAIN cards \cup {c} /\ \A d \in DOMAIN cards : cards'[d] = cards[d]
      /\ cards'[c].status = "drafting"
  BY <1>1 DEF Put, NewCard
<1>3. TextsNow' = TextsNow
  BY <1>1, TextsStay DEF Next, HandleText
<1>4. CardsNow' = [d \in DOMAIN CardsNow \cup {c} |-> IF d = c THEN L!Drafted ELSE CardsNow[d]]
  <2>1. CardsNow' = [d \in DOMAIN cards' |-> Seen(cards'[d])]
    BY DEF CardsNow, Seen
  <2>2. Seen(cards'[c]) = L!Drafted
    BY <1>2, SeenOf
  <2> QED BY <1>2, <2>1, <2>2 DEF CardsNow
<1>5. L!Make(c)
  BY <1>1, <1>3, <1>4 DEF L!Make, TextsNow, CardsNow
<1> QED BY <1>1, <1>5 DEF L!Next

\* What is offered is the text the card has by then, all of it.
LEMMA OfferMaps ==
    ASSUME IInv, ChainInv, LifeInv, DraftStored
    PROVE  L!Next
<1>0. PICK c, body : c = hand.card /\ body = proposals[sources[c]]
  OBVIOUS
<1>1. /\ UNCHANGED sources /\ c \in DOMAIN cards /\ c \in DOMAIN sources
      /\ cards[c].status = "drafting" /\ at \in {"draft", "model"}
  BY <1>0 DEF DraftStored, Reasons, LifeInv, IInv, PlaceInv
<1>2. PICK src, buttons :
        Put(c, [NewCard(<<>>) EXCEPT !.status = "awaiting_yes", !.source = src, !.body = body,
                                     !.buttons = buttons])
  BY <1>0 DEF DraftStored, Bound
<1>3. /\ DOMAIN cards' = DOMAIN cards /\ \A d \in DOMAIN cards : d # c => cards'[d] = cards[d]
      /\ cards'[c].status = "awaiting_yes" /\ cards'[c].body = body /\ cards'[c].seen = 0
  BY <1>1, <1>2 DEF Put, NewCard
<1>4. PICK row : row = [state |-> "offered", offer |-> body, shown |-> 0]
  OBVIOUS
<1>5. Seen(cards'[c]) = row
  BY <1>3, <1>4, SeenOf
<1>6. L!Becomes(c, row)
  BY <1>1, <1>3, <1>5, Becoming DEF Next, HandleText
<1>7. CardsNow[c] = L!Drafted /\ TextsNow[c] = body
  BY <1>0, <1>1, SeenOf DEF CardsNow, TextsNow
<1>8. L!Offer(c)
  BY <1>4, <1>6, <1>7 DEF L!Offer, CardsNow, TextsNow
<1> QED BY <1>1, <1>8 DEF L!Next

\* A part that arrives is shown.
LEMMA PartMaps ==
    ASSUME IInv, ChainInv, LifeInv, PartSent, ~UNCHANGED cards
    PROVE  L!Next
<1>0. PICK c : c = hand.card
  OBVIOUS
<1>1. /\ DOMAIN cards' = DOMAIN cards /\ c \in DOMAIN cards
      /\ \A d \in DOMAIN cards : d # c => cards'[d] = cards[d]
      /\ cards[c].status = "awaiting_yes" /\ cards[c].seen \in Nat /\ cards[c].seen < Parts
      /\ cards'[c].seen = cards[c].seen + 1 /\ cards'[c].body = cards[c].body
      /\ cards'[c].status = "awaiting_yes"
  BY <1>0, Delivers DEF Fields
<1>2. PICK body, n : body = cards[c].body /\ n = cards[c].seen
  OBVIOUS
<1>3. CardsNow[c] = [state |-> "offered", offer |-> body, shown |-> n]
  BY <1>1, <1>2, SeenOf DEF CardsNow
<1>4. PICK row : row = [state |-> "offered", offer |-> body, shown |-> n + 1]
  OBVIOUS
<1>5. Seen(cards'[c]) = row
  BY <1>1, <1>2, <1>4, SeenOf
<1>6. L!Becomes(c, row)
  BY <1>1, <1>5, Becoming DEF PartSent, Next, HandleText
<1>7. row = [CardsNow[c] EXCEPT !.shown = @ + 1]
  BY <1>3, <1>4
<1>8. L!Show(c)
  BY <1>1, <1>2, <1>3, <1>6, <1>7 DEF L!Show, CardsNow
<1> QED BY <1>1, <1>8 DEF L!Next

\* A card is granted or opened again only while it is on offer.
LEMMA TapMaps ==
    ASSUME IInv, ChainInv, LifeInv, NEW c \in DOMAIN cards, TapYes(c) \/ TapEdit(c)
    PROVE  L!Next
<1>1. [Next]_vars /\ UNCHANGED sources /\ cards[c].status = "awaiting_yes"
  BY DEF TapYes, TapEdit, Next, Taps
<1>2. PICK s \in {"granted", "expired", "drafting"} :
        SetStatus(c, s) /\ (s = "granted" => cards[c].yes)
  BY DEF TapYes, TapEdit
<1>3. /\ DOMAIN cards' = DOMAIN cards /\ cards'[c].status = s
      /\ \A d \in DOMAIN cards : d # c => cards'[d] = cards[d]
      /\ cards'[c].body = cards[c].body /\ cards'[c].seen = cards[c].seen
  BY <1>2, NewStatus DEF Fields
<1>4. PICK body, n, row : body = cards[c].body /\ n = cards[c].seen /\ row = Seen(cards'[c])
  OBVIOUS
<1>5. CardsNow[c] = [state |-> "offered", offer |-> body, shown |-> n]
  BY <1>1, <1>4, SeenOf DEF CardsNow
<1>6. L!Becomes(c, row)
  BY <1>1, <1>3, <1>4, Becoming
<1>7. CASE s = "granted"
  <2>1. row = [state |-> "granted", offer |-> body, shown |-> n]
    BY <1>3, <1>4, <1>7, SeenOf
  <2>2. n = Parts
    BY <1>2, <1>4, <1>7 DEF IInv, CardInv, CardOK
  <2>3. row = [CardsNow[c] EXCEPT !.state = "granted"]
    BY <1>5, <2>1
  <2>4. L!Grant(c)
    BY <1>5, <1>6, <2>2, <2>3 DEF L!Grant, CardsNow
  <2> QED BY <2>4 DEF L!Next
<1>8. CASE s = "drafting"
  <2>1. row = L!Drafted
    BY <1>3, <1>4, <1>8, SeenOf
  <2>2. L!Reopen(c)
    BY <1>5, <1>6, <2>1 DEF L!Reopen, CardsNow
  <2> QED BY <2>2 DEF L!Next
<1>9. CASE s = "expired"
  <2>1. row = L!Closed
    BY <1>3, <1>4, <1>9, SeenOf
  <2>2. L!Close(c)
    BY <1>5, <1>6, <2>1 DEF L!Close, CardsNow
  <2> QED BY <2>2 DEF L!Next
<1> QED BY <1>2, <1>7, <1>8, <1>9

\* Nothing closes a card that is granted or closed: not Drop, not the lack of an owner, not
\* the hourly pass.
LEMMA CloseMaps ==
    ASSUME IInv, ChainInv, LifeInv,
           NoOwners \/ (\E d \in DOMAIN cards : TapDrop(d)) \/ (\E d \in expiring : Expire(d))
    PROVE  L!Next
<1>1. [Next]_vars /\ UNCHANGED sources
  BY DEF NoOwners, TapDrop, Expire, Next, HandleText, Taps, Hourly
<1>2. PICK c \in DOMAIN cards, s \in {"dropped", "expired"} :
        SetStatus(c, s) /\ cards[c].status \in {"drafting", "awaiting_yes"}
  <2>1. CASE NoOwners
    BY <2>1 DEF NoOwners, LifeInv, IInv, PlaceInv
  <2>2. CASE \E d \in DOMAIN cards : TapDrop(d)
    BY <2>2 DEF TapDrop
  <2>3. CASE \E d \in expiring : Expire(d)
    BY <2>3 DEF Expire, LifeInv, IInv, BodyInv
  <2> QED BY <2>1, <2>2, <2>3
<1>3. /\ DOMAIN cards' = DOMAIN cards /\ cards'[c].status = s
      /\ \A d \in DOMAIN cards : d # c => cards'[d] = cards[d]
  BY <1>2, NewStatus
<1>4. PICK row : row = L!Closed
  OBVIOUS
<1>5. Seen(cards'[c]) = row
  BY <1>3, <1>4, SeenOf
<1>6. L!Becomes(c, row)
  BY <1>1, <1>3, <1>5, Becoming
<1>7. CardsNow[c].state \in {"drafting", "offered"}
  BY <1>2, SeenOf DEF CardsNow, L!Drafted
<1>8. L!Close(c)
  BY <1>4, <1>6, <1>7 DEF L!Close, CardsNow
<1> QED BY <1>8 DEF L!Next

\* The other steps change no text and no card.
LEMMA RestMaps ==
    ASSUME IInv, ChainInv, [Next]_vars, UNCHANGED <<cards, sources>>
    PROVE  UNCHANGED L!vars
<1>1. TextsNow' = TextsNow
  BY TextsStay
<1>2. CardsNow' = CardsNow
  BY DEF CardsNow, Seen
<1> QED BY <1>1, <1>2 DEF L!vars, TextsNow, CardsNow

\* Every step keeps the promise.
LEMMA StepMaps == IInv /\ ChainInv /\ LifeInv /\ [Next]_vars => L!Next \/ UNCHANGED L!vars
<1> SUFFICES ASSUME IInv, ChainInv, LifeInv, [Next]_vars PROVE L!Next \/ UNCHANGED L!vars
  OBVIOUS
<1>1. CASE UNCHANGED <<cards, sources>>
  BY <1>1, RestMaps
<1>2. CASE ~UNCHANGED <<cards, sources>>
  <2>1. \/ SetSource \/ PutCard \/ DraftStored \/ PartSent \/ NoOwners
        \/ (\E c \in DOMAIN cards : TapYes(c) \/ TapEdit(c) \/ TapDrop(c))
        \/ (\E c \in expiring : Expire(c))
    BY <1>2 DEF Next, HandleText, Taps, Hourly, vars, store, Says, FirstStart, Poll, StoreOffset,
         CardCommand, Answers, FileNote, FileObjective, AskQuestion, FileLegacy, Amend,
         DraftUnavailable, DraftIncomplete, EditAsks, ExpirePass, NoteExpired, Raises, Crash
  <2>2. CASE PartSent
    <3>1. UNCHANGED sources
      BY <2>2 DEF PartSent
    <3> QED BY <1>2, <2>2, <3>1, PartMaps
  <2> QED BY <2>1, <2>2, SetMaps, PutMaps, OfferMaps, TapMaps, CloseMaps
<1> QED BY <1>1, <1>2

\* At first there is one card, drafted, and no text; nothing is decided.
LEMMA InitLife == Init => LifeInv /\ L!Init
<1> SUFFICES ASSUME Init PROVE LifeInv /\ L!Init
  OBVIOUS
<1>1. LifeInv
  BY StatesAre, BoundsAssumption DEF Init, LifeInv, NewCard
<1>2. TextsNow = [c \in {} |-> <<>>]
  BY DEF Init, TextsNow
<1>3. CardsNow = [c \in {Legacy} |-> L!Drafted]
  <2>1. cards = [c \in {Legacy} |-> NewCard(<<0>>)]
    BY DEF Init
  <2>2. Seen(NewCard(<<0>>)) = L!Drafted
    <3>1. NewCard(<<0>>).status = "drafting"
      BY DEF NewCard
    <3> QED BY <3>1, SeenOf
  <2> QED BY <2>1, <2>2 DEF CardsNow
<1> QED BY <1>1, <1>2, <1>3 DEF L!Init, TextsNow, CardsNow

\* The card a handler holds is as the handler found it until its writes are made: drafted
\* while it is amended or drafted again, new while its first source is filed, waiting for a
\* yes when the hourly pass comes to it (handle_text, _draft, expire_cards).
THEOREM DecisionsHold == Spec => []LifeInv
<1>1. IInv /\ ChainInv /\ LifeInv /\ [Next]_vars => LifeInv'
  BY LifeStep
<1>2. Spec => [](IInv /\ ChainInv)
  BY InitInv, NextInv, ChainStep, PTL DEF Spec
<1> QED BY <1>1, <1>2, InitLife, PTL DEF Spec

\* Chat implements CardLife: whatever fails, is sent twice or is tapped late, a card's text
\* only grows, and only while the card is drafted; an offer binds all of it; a card is granted
\* only when every part of that offer was shown; and a card that is granted or closed stays so
\* (handle_text, _source, _amend, _draft, approve, edit, drop, expire_cards).
THEOREM CardLifeIsKept == Spec => CardsLive
<1>1. Spec => [](IInv /\ ChainInv)
  BY InitInv, NextInv, ChainStep, PTL DEF Spec
<1>2. IInv /\ ChainInv /\ LifeInv /\ [Next]_vars => [L!Next]_(L!vars)
  BY StepMaps
<1> QED BY <1>1, <1>2, InitLife, DecisionsHold, PTL DEF Spec, CardsLive, L!Spec

=============================================================================
