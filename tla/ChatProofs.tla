----------------------------- MODULE ChatProofs -----------------------------
(***************************************************************************)
(* Theorems about Chat, for every value of its constants.                  *)
(*                                                                         *)
(* IInv says where the daemon stands, what it has in hand and what the     *)
(* store may hold; ChainInv says what amends what and that a batch is      *)
(* handled once; AskInv says whom the open question is about; NoteInv      *)
(* counts the notes that are missing; UsedInv and KeptInv say what becomes *)
(* of a message.                                                           *)
(***************************************************************************)
EXTENDS Chat, FiniteSetTheorems, SequenceTheorems, TLAPS

Fields == {"status", "kept", "source", "body", "seen", "yes", "buttons"}
Bodies == Seq(Nat) \ {<<>>}
Binding == {"awaiting_yes", "granted"}

\* A sequence, of whatever.
IsSeq(s) == s \in Seq({s[i] : i \in DOMAIN s})

\* Where the daemon stands in the queue.
QueueInv ==
    /\ IsSeq(said)
    /\ {offset, polled, next} \subseteq Nat
    /\ offset <= Len(said) + 1 /\ polled <= Len(said) + 1
    /\ at # "down" => offset # 0 /\ polled # 0 /\ next # 0

\* What it has in hand.
HandInv ==
    /\ DOMAIN hand = {"card", "answer", "pid", "new", "then", "part"}
    /\ hand.answer \in Nat /\ hand.part \in Nat
    /\ at # "show" => hand.part = 0
    /\ hand.answer # 0 => ~hand.new

\* Proposals have a text, and every source and reference names one that is there.
BodyInv ==
    /\ \A p \in DOMAIN proposals : proposals[p] \in Bodies
    /\ \A c \in DOMAIN sources : sources[c] \in DOMAIN proposals
    /\ \A m \in DOMAIN said :
        said[m].text = None => said[m].card \in DOMAIN cards \cup DOMAIN proposals
    /\ open \in DOMAIN cards \cup {None}
    /\ expiring \subseteq DOMAIN cards

\* What each place of a handler knows of the card and the proposal in hand.
PlaceInv ==
    /\ at \in {"source", "put"} => hand.pid \in DOMAIN proposals
    /\ at \in {"source", "put"} /\ hand.new => hand.then \in {"ask", "draft"}
    /\ at = "source" /\ ~hand.new => hand.card \in DOMAIN cards /\ hand.then \in {"draft", "model"}
    /\ at = "put" => hand.new
    /\ at \in {"ask", "draft", "model", "show", "edit", "note"} => hand.card \in DOMAIN cards
    /\ at = "show" =>
        /\ cards[hand.card].status = "awaiting_yes"
        /\ cards[hand.card].seen = hand.part
        /\ ~cards[hand.card].yes
        /\ hand.part < Parts

\* What holds of a card: it binds the stored text, and its Yes came with the last of its parts.
CardOK(card) ==
    /\ DOMAIN card = Fields
    /\ card.kept \in Bodies
    /\ card.status \in Binding =>
        card.source \in DOMAIN proposals /\ card.body = proposals[card.source]
    /\ card.yes => card.seen = Parts
    /\ card.status = "granted" => card.seen = Parts

CardInv == \A c \in DOMAIN cards : CardOK(cards[c])

IInv == QueueInv /\ HandInv /\ BodyInv /\ PlaceInv /\ CardInv

-----------------------------------------------------------------------------
(* The writes *)

\* Appending to a sequence of anything.
LEMMA AppendAny ==
    ASSUME NEW s, NEW e, IsSeq(s)
    PROVE  /\ IsSeq(Append(s, e)) /\ Len(s) \in Nat
           /\ DOMAIN s = 1..Len(s) /\ DOMAIN Append(s, e) = 1..(Len(s) + 1)
           /\ \A i \in DOMAIN s : Append(s, e)[i] = s[i]
           /\ Append(s, e)[Len(s) + 1] = e
<1> DEFINE S == {s[i] : i \in DOMAIN s}
           T == S \cup {e}
<1>1. s \in Seq(S)
  BY DEF IsSeq
<1>2. s \in Seq(T)
  <2>1. s \in [1..Len(s) -> S] /\ Len(s) \in Nat
    BY <1>1
  <2>2. s \in [1..Len(s) -> T]
    BY <2>1
  <2> QED BY <2>1, <2>2
<1> HIDE DEF S, T
<1>3. /\ Append(s, e) \in Seq(T) /\ Len(s) \in Nat
      /\ DOMAIN s = 1..Len(s) /\ DOMAIN Append(s, e) = 1..(Len(s) + 1)
      /\ \A i \in DOMAIN s : Append(s, e)[i] = s[i]
      /\ Append(s, e)[Len(s) + 1] = e
  <2>1. e \in T
    BY DEF T
  <2> QED BY <1>2, <2>1
<1>4. IsSeq(Append(s, e))
  <2> DEFINE r == Append(s, e)
  <2>0. r \in Seq(T)
    BY <1>3
  <2> HIDE DEF r
  <2>1. r \in [1..Len(r) -> {r[i] : i \in DOMAIN r}] /\ Len(r) \in Nat
    <3>1. r \in [1..Len(r) -> T] /\ Len(r) \in Nat
      BY <2>0
    <3> QED BY <3>1
  <2>2. r \in Seq({r[i] : i \in DOMAIN r})
    BY <2>1
  <2> QED BY <2>2 DEF IsSeq, r
<1> QED BY <1>3, <1>4

\* Filing a proposal changes none that is stored.
LEMMA FileKeeps ==
    ASSUME NEW p, NEW body, File(p, body)
    PROVE  /\ DOMAIN proposals' = DOMAIN proposals \cup {p}
           /\ \A q \in DOMAIN proposals : proposals'[q] = proposals[q]
           /\ p \notin DOMAIN proposals => proposals'[p] = body
  BY DEF File

\* So the cards still bind what they bound.
LEMMA FileCards ==
    ASSUME IInv, NEW p, NEW body \in Bodies, File(p, body), UNCHANGED <<cards, sources>>
    PROVE  /\ CardInv'
           /\ \A q \in DOMAIN proposals' : proposals'[q] \in Bodies
           /\ \A c \in DOMAIN sources' : sources'[c] \in DOMAIN proposals'
           /\ DOMAIN proposals \subseteq DOMAIN proposals' /\ p \in DOMAIN proposals'
<1>1. /\ DOMAIN proposals' = DOMAIN proposals \cup {p}
      /\ \A q \in DOMAIN proposals : proposals'[q] = proposals[q]
      /\ p \notin DOMAIN proposals => proposals'[p] = body
  BY FileKeeps
<1>2. CardInv'
  <2> SUFFICES ASSUME NEW c \in DOMAIN cards PROVE CardOK(cards[c])'
    BY DEF CardInv
  <2>1. CardOK(cards[c])
    BY DEF IInv, CardInv
  <2> QED BY <1>1, <2>1 DEF CardOK
<1> QED BY <1>1, <1>2 DEF IInv, BodyInv

\* A status other than awaiting_yes needs nothing, but a grant needs the Yes.
LEMMA StatusKeeps ==
    ASSUME IInv, NEW c, NEW s, SetStatus(c, s), UNCHANGED proposals, s # "awaiting_yes",
           c \in DOMAIN cards /\ s = "granted" =>
                cards[c].status = "awaiting_yes" /\ cards[c].yes
    PROVE  CardInv' /\ DOMAIN cards' = DOMAIN cards
<1>1. /\ DOMAIN cards' = DOMAIN cards
      /\ \A d \in DOMAIN cards : d # c => cards'[d] = cards[d]
      /\ c \in DOMAIN cards => cards'[c] = [cards[c] EXCEPT !.status = s]
  BY DEF SetStatus
<1>2. ASSUME NEW d \in DOMAIN cards PROVE CardOK(cards[d])'
  <2>1. CardOK(cards[d])
    BY DEF IInv, CardInv
  <2>2. CASE d # c
    BY <1>1, <2>1, <2>2 DEF CardOK
  <2>3. CASE d = c
    BY <1>1, <2>1, <2>3 DEF CardOK, Fields, Binding
  <2> QED BY <2>2, <2>3
<1> QED BY <1>1, <1>2 DEF CardInv

\* Writing a card that is in order keeps the others, and its own copy of the source.
LEMMA PutKeeps ==
    ASSUME IInv, NEW c, NEW row, Put(c, row), UNCHANGED proposals, DOMAIN row = Fields,
           \A kept \in Bodies : CardOK([row EXCEPT !.kept = kept]),
           c \notin DOMAIN cards => CardOK(row)
    PROVE  /\ CardInv' /\ DOMAIN cards' = DOMAIN cards \cup {c}
           /\ \A f \in Fields \ {"kept"} : cards'[c][f] = row[f]
<1>1. /\ DOMAIN cards' = DOMAIN cards \cup {c}
      /\ \A d \in DOMAIN cards : d # c => cards'[d] = cards[d]
      /\ c \in DOMAIN cards => cards'[c] = [row EXCEPT !.kept = cards[c].kept]
      /\ c \notin DOMAIN cards => cards'[c] = row
  BY DEF Put
<1>2. ASSUME NEW d \in DOMAIN cards' PROVE CardOK(cards[d])'
  <2>1. CASE d # c
    <3>1. CardOK(cards[d])
      BY <1>1, <2>1 DEF IInv, CardInv
    <3> QED BY <1>1, <2>1, <3>1 DEF CardOK
  <2>2. CASE d = c /\ c \in DOMAIN cards
    <3>1. cards[c].kept \in Bodies
      BY <2>2 DEF IInv, CardInv, CardOK
    <3>2. CardOK(cards'[c])
      BY <1>1, <2>2, <3>1
    <3> QED BY <2>2, <3>2 DEF CardOK
  <2>3. CASE d = c /\ c \notin DOMAIN cards
    <3>1. CardOK(cards'[c])
      BY <1>1, <2>3
    <3> QED BY <2>3, <3>1 DEF CardOK
  <2> QED BY <1>1, <2>1, <2>2, <2>3
<1>3. \A f \in Fields \ {"kept"} : cards'[c][f] = row[f]
  BY <1>1 DEF Fields
<1> QED BY <1>1, <1>2, <1>3 DEF CardInv

-----------------------------------------------------------------------------
(* The steps *)

\* Between two items nothing is in hand.
LEMMA DoneRests ==
    ASSUME IInv, Done, UNCHANGED <<said, offset, polled>>, at # "down"
    PROVE  QueueInv' /\ HandInv' /\ PlaceInv'
<1>1. hand' = Idle /\ at' \in {"idle", "items"} /\ next' \in {next, next + 1}
  BY DEF Done
<1>2. QueueInv'
  BY <1>1 DEF IInv, QueueInv, IsSeq
<1>3. HandInv' /\ PlaceInv'
  BY <1>1 DEF HandInv, PlaceInv, Idle
<1> QED BY <1>2, <1>3

\* The chat grows, is polled and is taken up.
LEMMA ChatStep ==
    ASSUME IInv, Says \/ FirstStart \/ Poll \/ StoreOffset
    PROVE  IInv'
<1> USE DEF IInv
<1>1. UNCHANGED <<proposals, store, hand, expiring>>
  BY DEF Says, FirstStart, Poll, StoreOffset, daemon
<1>2. QueueInv'
  <2>1. CASE Says
    <3>1. PICK e : said' = Append(said, e)
      BY <2>1 DEF Says
    <3>2. /\ IsSeq(said') /\ Len(said) \in Nat /\ Len(said') = Len(said) + 1
      BY <3>1, AppendAny DEF QueueInv
    <3> QED BY <2>1, <3>2 DEF Says, QueueInv, daemon
  <2>2. Len(said) \in Nat
    BY AppendAny DEF QueueInv
  <2>3. CASE FirstStart \/ Poll
    BY <2>2, <2>3 DEF FirstStart, Poll, QueueInv, IsSeq
  <2>4. CASE StoreOffset
    BY <2>2, <2>4 DEF StoreOffset, QueueInv, IsSeq
  <2> QED BY <2>1, <2>3, <2>4
<1>3. HandInv' /\ PlaceInv'
  <2>1. at' \in {"down", "idle", "got", "items"} /\ at \in {"down", "idle", "got"}
    BY DEF Says, FirstStart, Poll, StoreOffset, daemon
  <2> QED BY <1>1, <2>1 DEF HandInv, PlaceInv
<1>4. BodyInv'
  <2>1. ASSUME NEW m \in DOMAIN said', said'[m].text = None
        PROVE  said'[m].card \in DOMAIN cards \cup DOMAIN proposals
    <3>1. CASE Says
      <4>1. PICK e : /\ said' = Append(said, e)
                     /\ e.text = None => e.card \in DOMAIN cards \cup DOMAIN proposals
        <5>1. CASE \E t \in Texts : said' = Append(said, [text |-> t, card |-> None])
          <6>1. PICK t \in Texts : said' = Append(said, [text |-> t, card |-> None])
            BY <5>1
          <6>2. t # None
            BY TextsAssumption
          <6> QED BY <6>1, <6>2
        <5>2. CASE \E r \in DOMAIN cards \cup DOMAIN proposals :
                    said' = Append(said, [text |-> None, card |-> r])
          BY <5>2
        <5> QED BY <3>1, <5>1, <5>2 DEF Says
      <4>2. /\ DOMAIN said = 1..Len(said) /\ DOMAIN said' = 1..(Len(said) + 1)
            /\ \A i \in DOMAIN said : said'[i] = said[i]
            /\ said'[Len(said) + 1] = e /\ Len(said) \in Nat
        BY <4>1, AppendAny DEF QueueInv
      <4>3. CASE m \in DOMAIN said
        BY <2>1, <4>2, <4>3 DEF BodyInv
      <4>4. CASE m = Len(said) + 1
        BY <2>1, <4>1, <4>2, <4>4
      <4> QED BY <4>2, <4>3, <4>4
    <3>2. CASE FirstStart \/ Poll \/ StoreOffset
      BY <2>1, <3>2 DEF FirstStart, Poll, StoreOffset, BodyInv
    <3> QED BY <3>1, <3>2
  <2> QED BY <1>1, <2>1 DEF BodyInv, store
<1>5. CardInv'
  BY <1>1 DEF CardInv, CardOK, store
<1> QED BY <1>2, <1>3, <1>4, <1>5

\* A message is taken up: nothing is written but the open question.
LEMMA TakeStep ==
    ASSUME IInv, CardCommand \/ Answers
    PROVE  IInv'
<1> USE DEF IInv
<1>1. UNCHANGED <<said, offset, polled, proposals, cards, sources, expiring>> /\ Item
  BY DEF CardCommand, Answers, store, chat
<1>2. next \in DOMAIN said
  BY <1>1, AppendAny DEF Item, QueueInv
<1>3. QueueInv' /\ HandInv' /\ PlaceInv'
  <2>1. CASE Done
    BY <1>1, <2>1, DoneRests DEF Item
  <2>2. CASE CardCommand /\ ~Done
    <3>1. /\ UNCHANGED next
          /\ \/ at' = "draft" /\ Referred \in DOMAIN cards
                /\ hand' = [Idle EXCEPT !.card = Referred, !.answer = 0]
             \/ at' = "source" /\ said[next].text = None /\ Referred \notin DOMAIN cards
                /\ hand' = [Idle EXCEPT !.card = Referred, !.pid = said[next].card, !.new = TRUE,
                                        !.then = "draft"]
      BY <2>2 DEF CardCommand, Drafts, Text
    <3>2. Referred \notin DOMAIN cards /\ said[next].text = None =>
            said[next].card \in DOMAIN proposals
      BY <1>2 DEF Referred, BodyInv
    <3>3. ASSUME at' = "draft" PROVE HandInv' /\ PlaceInv'
      <4>1. PICK c \in DOMAIN cards' : hand' = [Idle EXCEPT !.card = c, !.answer = 0]
        BY <1>1, <3>1, <3>3
      <4> QED BY <3>3, <4>1 DEF HandInv, PlaceInv, Idle
    <3>4. ASSUME at' = "source" PROVE HandInv' /\ PlaceInv'
      <4>1. \E c : hand' = [Idle EXCEPT !.card = c, !.pid = said[next].card, !.new = TRUE,
                                        !.then = "draft"]
        BY <3>1, <3>4
      <4>2. PICK c, p : /\ p \in DOMAIN proposals'
                        /\ hand' = [Idle EXCEPT !.card = c, !.pid = p, !.new = TRUE,
                                                !.then = "draft"]
        BY <1>1, <3>1, <3>2, <3>4, <4>1
      <4> QED BY <3>4, <4>2 DEF HandInv, PlaceInv, Idle
    <3> QED BY <1>1, <3>1, <3>3, <3>4 DEF QueueInv, IsSeq, Item
  <2>3. CASE Answers
    <3>1. /\ UNCHANGED next
          /\ \/ at' = "draft" /\ open \in DOMAIN cards
                /\ hand' = [Idle EXCEPT !.card = open, !.answer = next]
             \/ at' = "classify" /\ hand' = hand
      BY <2>3 DEF Answers, Drafts, BodyInv, chat
    <3>2. HandInv' /\ PlaceInv'
      BY <1>1, <3>1 DEF HandInv, PlaceInv, Idle, QueueInv, Item
    <3> QED BY <1>1, <3>1, <3>2 DEF QueueInv, IsSeq, Item
  <2> QED BY <2>1, <2>2, <2>3
<1>4. BodyInv'
  <2>1. open' \in {open, None}
    BY DEF CardCommand, Answers, store
  <2> QED BY <1>1, <2>1 DEF BodyInv
<1>5. CardInv'
  BY <1>1 DEF CardInv, CardOK
<1> QED BY <1>3, <1>4, <1>5

\* A text is filed: an idea, a note, the source of an old card, an amended source or the
\* note of an expired card.
LEMMA FileStep ==
    ASSUME IInv, FileNote \/ FileObjective \/ FileLegacy \/ Amend \/ NoteExpired
    PROVE  IInv'
<1> USE DEF IInv
<1>1. /\ UNCHANGED <<said, offset, polled, cards, sources, open>>
      /\ expiring' \subseteq expiring
      /\ at \in {"classify", "items", "draft", "note"}
  BY DEF FileNote, FileObjective, FileLegacy, Amend, NoteExpired, chat, store, Classifies, Item
<1>2. PICK p : \E body \in Bodies :
        /\ File(p, body)
        /\ FileObjective => p = TextOf(next)
        /\ FileLegacy => p = NoteOf(hand.card)
        /\ Amend => p = AmendedBy(sources[hand.card], said[hand.answer].text)
  <2>1. CASE FileNote \/ FileObjective
    <3>1. <<next>> \in Bodies
      BY DEF QueueInv, Bodies
    <3>2. File(TextOf(next), <<next>>) /\ ~FileLegacy /\ ~Amend
      BY <2>1 DEF FileNote, FileObjective, FileLegacy, Amend, Classifies, Item
    <3> QED BY <3>1, <3>2
  <2>2. CASE FileLegacy
    <3>1. cards[hand.card].kept \in Bodies
      BY <2>2 DEF FileLegacy, PlaceInv, CardInv, CardOK
    <3>2. ~FileObjective /\ ~Amend
      BY <2>2 DEF FileObjective, FileLegacy, Amend, Classifies, Item
    <3> QED BY <2>2, <3>1, <3>2 DEF FileLegacy
  <2>3. CASE Amend
    <3>1. Append(proposals[sources[hand.card]], hand.answer) \in Bodies
      BY <2>3 DEF Amend, BodyInv, HandInv, Bodies
    <3>2. ~FileObjective /\ ~FileLegacy
      BY <2>3 DEF FileObjective, FileLegacy, Amend, Classifies, Item
    <3> QED BY <2>3, <3>1, <3>2 DEF Amend
  <2>4. CASE NoteExpired
    <3>1. cards[hand.card].kept \in Bodies
      BY <2>4 DEF NoteExpired, PlaceInv, CardInv, CardOK
    <3>2. ~FileObjective /\ ~FileLegacy /\ ~Amend
      BY <2>4 DEF FileObjective, FileLegacy, Amend, NoteExpired, Classifies, Item
    <3> QED BY <2>4, <3>1, <3>2 DEF NoteExpired
  <2> QED BY <2>1, <2>2, <2>3, <2>4
<1>3. /\ CardInv'
      /\ \A q \in DOMAIN proposals' : proposals'[q] \in Bodies
      /\ \A c \in DOMAIN sources' : sources'[c] \in DOMAIN proposals'
      /\ DOMAIN proposals \subseteq DOMAIN proposals' /\ p \in DOMAIN proposals'
  BY <1>1, <1>2, FileCards
<1>4. BodyInv'
  BY <1>1, <1>3 DEF BodyInv
<1>5. QueueInv' /\ HandInv' /\ PlaceInv'
  <2>1. CASE FileNote
    BY <1>1, <2>1, DoneRests DEF FileNote
  <2>2. CASE FileObjective
    <3>1. /\ at' = "source" /\ UNCHANGED next
          /\ \E then \in {"ask", "draft"} :
                hand' = [Idle EXCEPT !.card = <<"idea", next>>, !.pid = p, !.new = TRUE,
                                     !.then = then]
      BY <1>2, <2>2 DEF FileObjective, chat
    <3> QED BY <1>1, <1>3, <3>1 DEF QueueInv, IsSeq, HandInv, PlaceInv, Idle
  <2>3. CASE FileLegacy \/ Amend
    <3>1. /\ at = "draft" /\ at' = "source" /\ UNCHANGED next
          /\ \E then \in {"draft", "model"} : 
                /\ hand' = [hand EXCEPT !.pid = p, !.then = then]
                /\ hand.new => then = "draft"
      BY <1>2, <2>3 DEF FileLegacy, Amend, HandInv, chat
    <3>2. /\ HandInv' /\ hand'.card = hand.card /\ hand'.pid = p
          /\ hand'.then \in {"draft", "model"}
          /\ hand'.new = hand.new /\ (hand'.new => hand'.then = "draft")
      BY <3>1 DEF HandInv
    <3>3. hand'.card \in DOMAIN cards
      BY <3>1, <3>2 DEF PlaceInv
    <3> QED BY <1>1, <1>3, <3>1, <3>2, <3>3 DEF QueueInv, IsSeq, PlaceInv
  <2>4. CASE NoteExpired
    <3>1. at' \in {"idle", "expire"} /\ hand' = Idle /\ UNCHANGED next /\ at = "note"
      BY <2>4 DEF NoteExpired, chat
    <3> QED BY <1>1, <3>1 DEF QueueInv, IsSeq, HandInv, PlaceInv, Idle
  <2> QED BY <2>1, <2>2, <2>3, <2>4
<1> QED BY <1>3, <1>4, <1>5

\* The card's source is written, then the card of a new idea.
LEMMA WriteStep ==
    ASSUME IInv, SetSource \/ PutCard
    PROVE  IInv'
<1> USE DEF IInv
<1>1. /\ UNCHANGED <<said, offset, polled, next, proposals, open, hand, expiring>>
      /\ at \in {"source", "put"} /\ hand.pid \in DOMAIN proposals
  BY DEF SetSource, PutCard, PlaceInv, chat
<1>2. QueueInv' /\ HandInv'
  <2>1. at' # "down" /\ at # "show"
    BY <1>1 DEF SetSource, PutCard, PlaceInv
  <2> QED BY <1>1, <2>1 DEF QueueInv, IsSeq, HandInv
<1>3. CASE SetSource
  <2>1. UNCHANGED cards
    BY <1>3 DEF SetSource
  <2>2. BodyInv'
    <3>1. \A c \in DOMAIN sources' : 
            sources'[c] \in {hand.pid} \cup {sources[d] : d \in DOMAIN sources}
      BY <1>3 DEF SetSource
    <3> QED BY <1>1, <2>1, <3>1 DEF BodyInv
  <2>3. PlaceInv'
    BY <1>1, <1>3, <2>1 DEF SetSource, PlaceInv
  <2>4. CardInv'
    BY <1>1, <2>1 DEF CardInv, CardOK
  <2> QED BY <1>2, <2>2, <2>3, <2>4
<1>4. CASE PutCard
  <2> DEFINE row == NewCard(proposals[hand.pid])
  <2>1. DOMAIN row = Fields /\ row.kept \in Bodies
    BY <1>1 DEF NewCard, Fields, BodyInv
  <2>2. CardOK(row) /\ \A kept \in Bodies : CardOK([row EXCEPT !.kept = kept])
    BY <2>1 DEF NewCard, CardOK, Binding, Fields
  <2>3. Put(hand.card, row)
    BY <1>4 DEF PutCard
  <2> HIDE DEF row
  <2>4. CardInv' /\ DOMAIN cards' = DOMAIN cards \cup {hand.card}
    BY <1>1, <2>1, <2>2, <2>3, PutKeeps
  <2>5. BodyInv'
    BY <1>1, <1>4, <2>4 DEF PutCard, BodyInv
  <2>6. PlaceInv'
    BY <1>1, <1>4, <2>4 DEF PutCard, PlaceInv
  <2> QED BY <1>2, <2>4, <2>5, <2>6
<1> QED BY <1>3, <1>4

\* The item ends without a card to show: no answer, a question, an unfit draft, or no owner.
LEMMA EndStep ==
    ASSUME IInv,
           AskQuestion \/ NoOwners \/ DraftUnavailable \/ DraftIncomplete \/ EditAsks \/ Raises
    PROVE  IInv'
<1> USE DEF IInv
<1>1. /\ UNCHANGED <<said, offset, polled, proposals, sources, expiring>>
      /\ at \in {"items", "classify", "source", "put", "ask", "draft", "model", "edit"}
  BY DEF AskQuestion, NoOwners, DraftUnavailable, DraftIncomplete, EditAsks, Raises, store, Reasons
<1>2. QueueInv' /\ HandInv' /\ PlaceInv'
  <2>1. CASE Done
    BY <1>1, <2>1, DoneRests
  <2>2. CASE hand' = Idle /\ at' = "idle" /\ next' = polled
    BY <1>1, <2>2 DEF QueueInv, IsSeq, HandInv, PlaceInv, Idle
  <2> QED
    BY <2>1, <2>2 DEF AskQuestion, NoOwners, DraftUnavailable, DraftIncomplete, EditAsks, Raises
<1>3. CardInv' /\ DOMAIN cards' = DOMAIN cards
  <2>1. CASE NoOwners
    <3>1. SetStatus(hand.card, "dropped")
      BY <2>1 DEF NoOwners
    <3> QED BY <1>1, <3>1, StatusKeeps
  <2>2. CASE UNCHANGED cards
    BY <1>1, <2>2 DEF CardInv, CardOK
  <2> QED
    BY <2>1, <2>2 DEF AskQuestion, DraftUnavailable, DraftIncomplete, EditAsks, Raises, store
<1>4. BodyInv'
  <2>1. open' \in {open, hand.card} /\ (open' # open => at \in {"ask", "draft", "model", "edit"})
    BY DEF AskQuestion, NoOwners, DraftUnavailable, DraftIncomplete, EditAsks, Raises, store, Reasons
  <2> QED BY <1>1, <1>3, <2>1 DEF BodyInv, PlaceInv
<1> QED BY <1>2, <1>3, <1>4

\* A complete draft is stored with the source as it is stored.
LEMMA DraftStep ==
    ASSUME IInv, DraftStored
    PROVE  IInv'
<1> USE DEF IInv
<1> DEFINE pid == sources[hand.card]
           row == [NewCard(<<>>) EXCEPT
                     !.status = "awaiting_yes", !.source = pid, !.body = Bound(pid),
                     !.buttons = cards[hand.card].buttons]
<1> HIDE DEF pid
<1>1. /\ UNCHANGED <<said, offset, polled, next, proposals, sources, open, hand, expiring>>
      /\ hand.card \in DOMAIN cards /\ pid \in DOMAIN proposals /\ at \in {"model", "draft"}
      /\ at' = "show" /\ Put(hand.card, row)
  BY DEF DraftStored, Reasons, PlaceInv, BodyInv, chat, pid
<1>2. /\ DOMAIN row = Fields /\ row.status = "awaiting_yes" /\ row.source = pid
      /\ row.body = proposals[pid] /\ row.seen = 0 /\ ~row.yes
  BY DEF NewCard, Fields, Bound
<1> HIDE DEF row
<1>3. \A kept \in Bodies : CardOK([row EXCEPT !.kept = kept])
  BY <1>1, <1>2 DEF CardOK, Fields, Binding
<1>4. /\ CardInv' /\ DOMAIN cards' = DOMAIN cards \cup {hand.card}
      /\ \A f \in Fields \ {"kept"} : cards'[hand.card][f] = row[f]
  <2>1. Put(hand.card, row) /\ DOMAIN row = Fields /\ UNCHANGED proposals
        /\ hand.card \in DOMAIN cards
    BY <1>1, <1>2
  <2> QED BY <2>1, <1>3, PutKeeps
<1>5. BodyInv'
  BY <1>1, <1>4 DEF BodyInv
<1>6. PlaceInv'
  <2>1. /\ cards'[hand.card].status = "awaiting_yes" /\ cards'[hand.card].seen = 0
        /\ ~cards'[hand.card].yes
    BY <1>2, <1>4 DEF Fields
  <2>2. hand.part = 0 /\ 0 < Parts
    BY <1>1, PartsAssumption DEF HandInv
  <2>3. at' = "show" /\ hand' = hand /\ hand.card \in DOMAIN cards'
    BY <1>1, <1>4
  <2> QED BY <2>1, <2>2, <2>3 DEF PlaceInv
<1>7. QueueInv' /\ HandInv'
  BY <1>1 DEF QueueInv, IsSeq, HandInv
<1> QED BY <1>4, <1>5, <1>6, <1>7

\* The parts are sent one after the other, and the Yes is on the last.
LEMMA ShowStep ==
    ASSUME IInv, PartSent
    PROVE  IInv'
<1> USE DEF IInv
<1>0. PICK c, part : c = hand.card /\ part = hand.part + 1
  OBVIOUS
<1>1. /\ UNCHANGED <<said, offset, polled, proposals, sources, open, expiring>>
      /\ at = "show" /\ c \in DOMAIN cards /\ hand.part \in Nat /\ hand.part < Parts
      /\ cards[c].status = "awaiting_yes" /\ cards[c].seen = hand.part /\ ~cards[c].yes
      /\ CardOK(cards[c])
  BY <1>0 DEF PartSent, PlaceInv, HandInv, CardInv
<1>2. CASE UNCHANGED cards
  <2>1. Done
    <3>1. ~(cards' = [cards EXCEPT ![c].seen = @ + 1,
                                   ![c].yes = (part = Parts),
                                   ![c].buttons = @ \/ part = Parts])
      <4>1. SUFFICES ASSUME cards' = [cards EXCEPT ![c].seen = @ + 1,
                                   ![c].yes = (part = Parts),
                                   ![c].buttons = @ \/ part = Parts]
                     PROVE FALSE
        OBVIOUS
      <4>2. cards'[c].seen = hand.part + 1
        BY <1>0, <1>1, <4>1 DEF CardOK, Fields
      <4> QED BY <1>0, <1>1, <1>2, <4>2
    <3> QED BY <1>0, <3>1 DEF PartSent
  <2>2. QueueInv' /\ HandInv' /\ PlaceInv'
    BY <1>1, <2>1, DoneRests
  <2>3. BodyInv' /\ CardInv'
    BY <1>1, <1>2 DEF BodyInv, CardInv, CardOK
  <2> QED BY <2>2, <2>3
<1>3. CASE ~UNCHANGED cards
  <2>1. /\ cards' = [cards EXCEPT ![c].seen = @ + 1,
                                  ![c].yes = (part = Parts),
                                  ![c].buttons = @ \/ part = Parts]
        /\ IF part = Parts THEN Done
           ELSE hand' = [hand EXCEPT !.part = part] /\ UNCHANGED <<at, next>>
    BY <1>0, <1>3 DEF PartSent
  <2>2. /\ DOMAIN cards' = DOMAIN cards
        /\ \A d \in DOMAIN cards : d # c => cards'[d] = cards[d]
        /\ DOMAIN cards'[c] = Fields
        /\ \A f \in Fields \ {"seen", "yes", "buttons"} : cards'[c][f] = cards[c][f]
        /\ cards'[c].seen = part /\ (cards'[c].yes => part = Parts)
    BY <1>0, <1>1, <2>1 DEF CardOK, Fields
  <2>3. CardInv'
    <3>1. ASSUME NEW d \in DOMAIN cards, d # c PROVE CardOK(cards[d])'
      BY <1>1, <2>2, <3>1 DEF CardInv, CardOK
    <3>2. CardOK(cards[c])'
      <4>1. /\ cards'[c].kept = cards[c].kept /\ cards'[c].status = cards[c].status
            /\ cards'[c].source = cards[c].source /\ cards'[c].body = cards[c].body
        BY <2>2 DEF Fields
      <4> QED BY <1>0, <1>1, <2>2, <4>1 DEF CardOK
    <3> QED BY <2>2, <3>1, <3>2 DEF CardInv
  <2>4. BodyInv'
    BY <1>1, <2>2 DEF BodyInv
  <2>5. CASE part = Parts
    BY <1>1, <2>1, <2>3, <2>4, <2>5, DoneRests
  <2>6. CASE part # Parts
    <3>1. hand' = [hand EXCEPT !.part = part] /\ UNCHANGED <<at, next>>
      BY <2>1, <2>6
    <3>2. HandInv' /\ hand'.card = c /\ hand'.part = part
      BY <1>0, <1>1, <3>1 DEF HandInv
    <3>3. PlaceInv'
      BY <1>0, <1>1, <2>2, <2>6, <3>1, <3>2, PartsAssumption DEF PlaceInv, Fields
    <3> QED BY <1>1, <2>3, <2>4, <3>1, <3>2, <3>3 DEF QueueInv, IsSeq
  <2> QED BY <2>5, <2>6
<1> QED BY <1>2, <1>3

\* A tap or the hourly pass changes a card's status.
LEMMA StatusStep ==
    ASSUME IInv, NEW c,
           \/ c \in DOMAIN cards /\ (TapYes(c) \/ TapEdit(c) \/ TapDrop(c))
           \/ c \in expiring /\ Expire(c)
    PROVE  IInv'
<1> USE DEF IInv
<1>1. /\ UNCHANGED <<said, offset, polled, next, proposals, sources, open, expiring>>
      /\ c \in DOMAIN cards
      /\ at \in {"idle", "expire"} /\ at' \in {"idle", "edit", "note"}
      /\ IF at' = "idle" THEN hand' = hand ELSE hand' = [Idle EXCEPT !.card = c]
  BY DEF TapYes, TapEdit, TapDrop, Expire, daemon, chat, BodyInv
<1>2. PICK s : /\ SetStatus(c, s) /\ s # "awaiting_yes"
               /\ s = "granted" => cards[c].status = "awaiting_yes" /\ cards[c].yes
  BY DEF TapYes, TapEdit, TapDrop, Expire
<1>3. CardInv' /\ DOMAIN cards' = DOMAIN cards
  BY <1>1, <1>2, StatusKeeps
<1>4. BodyInv'
  BY <1>1, <1>3 DEF BodyInv
<1>5. QueueInv'
  BY <1>1 DEF QueueInv, IsSeq
<1>6. HandInv' /\ PlaceInv'
  <2>1. HandInv' /\ (at' # "idle" => hand'.card = c)
    <3>1. CASE at' = "idle"
      BY <1>1, <3>1 DEF HandInv
    <3>2. CASE at' # "idle"
      BY <1>1, <3>2 DEF HandInv, Idle
    <3> QED BY <3>1, <3>2
  <2> QED BY <1>1, <1>3, <2>1 DEF PlaceInv
<1> QED BY <1>3, <1>4, <1>5, <1>6

\* The hourly pass begins, or the daemon starts again.
LEMMA PassStep ==
    ASSUME IInv, ExpirePass \/ Crash
    PROVE  IInv'
<1> USE DEF IInv
<1>1. /\ UNCHANGED <<said, offset, proposals, cards, sources, open>>
      /\ at # "down" /\ at' \in {"idle", "expire"}
      /\ \/ UNCHANGED <<polled, next, hand>> /\ at = "idle"
         \/ polled' = offset /\ next' = offset /\ hand' = Idle
      /\ expiring' \subseteq DOMAIN cards
  BY DEF ExpirePass, Crash, chat, store, Awaiting
<1>2. QueueInv'
  BY <1>1 DEF QueueInv, IsSeq
<1>3. HandInv' /\ PlaceInv'
  BY <1>1 DEF HandInv, PlaceInv, Idle
<1>4. BodyInv' /\ CardInv'
  BY <1>1 DEF BodyInv, CardInv, CardOK
<1> QED BY <1>2, <1>3, <1>4

-----------------------------------------------------------------------------
(* The theorems *)

\* The invariant holds before the first start.
LEMMA InitInv == Init => IInv
<1> SUFFICES ASSUME Init PROVE IInv
  OBVIOUS
<1>1. QueueInv /\ HandInv
  BY DEF Init, QueueInv, HandInv, Idle, IsSeq
<1>2. BodyInv
  BY DEF Init, BodyInv, Legacy
<1>3. PlaceInv
  BY DEF Init, PlaceInv
<1>4. CardInv
  <2>1. <<0>> \in Bodies
    BY DEF Bodies
  <2> QED BY <2>1 DEF Init, CardInv, CardOK, NewCard, Fields, Binding
<1> QED BY <1>1, <1>2, <1>3, <1>4 DEF IInv

\* Every step keeps the invariant.
LEMMA NextInv == IInv /\ [Next]_vars => IInv'
<1> SUFFICES ASSUME IInv, [Next]_vars PROVE IInv'
  OBVIOUS
<1>1. CASE Next
  BY <1>1, ChatStep, TakeStep, FileStep, WriteStep, EndStep, DraftStep, ShowStep, StatusStep, PassStep
     DEF Next, HandleText, Taps, Hourly
<1>2. CASE UNCHANGED vars
  BY <1>2 DEF vars, chat, store, daemon, IInv, QueueInv, IsSeq, HandInv, BodyInv, PlaceInv, CardInv,
              CardOK
<1> QED BY <1>1, <1>2

\* The invariant holds always: of the queue, of what is in hand, of what is stored and of
\* every card.
THEOREM Invariance == Spec => []IInv
  BY InitInv, NextInv, PTL DEF Spec

\* Whatever was sent and however often, the source a card binds is the proposal as it is
\* stored (intake.py's _source and _amend read it back), so the grant is not refused (F7).
THEOREM BoundSourceIsStored == Spec => []SourceIsStored
<1>1. IInv => SourceIsStored
  BY DEF IInv, CardInv, CardOK, SourceIsStored, Binding
<1> QED BY <1>1, Invariance, PTL

\* Only a card of which every part was delivered is ever granted (Bot.send puts the buttons
\* on the last part, and stops at the first that fails).
THEOREM NothingUnseenIsGranted == Spec => []GrantedWasSeen
<1>1. IInv => GrantedWasSeen
  BY DEF IInv, CardInv, CardOK, GrantedWasSeen
<1> QED BY <1>1, Invariance, PTL

-----------------------------------------------------------------------------
(* What an amendment adds *)

\* The ids: a kind, what the text was made from, and the texts that amended it.
Id(p) == \E k, x : \E ts \in Seq(Texts) : p = <<k, x, ts>>

\* An amended proposal is another one, which is stored too, and one message.
TextInv ==
    \A p \in DOMAIN proposals :
        /\ Id(p)
        /\ p[3] # <<>> =>
            \E base \in DOMAIN proposals, t \in Texts, m \in DOMAIN said :
                p = AmendedBy(base, t) /\ proposals[p] = Append(proposals[base], m)

\* An answer in hand is a text that was said.
AnswerInv ==
    /\ \A m \in DOMAIN said : said[m].text \in Texts \cup {None}
    /\ hand.answer # 0 => hand.answer \in DOMAIN said /\ said[hand.answer].text \in Texts

Making == {"source", "put", "ask", "draft", "model", "show"}

\* A batch is handled once: its offset is stored before, and what came of an idea was made
\* while the idea was the next of the batch.
TurnInv ==
    /\ offset <= polled /\ next <= polled
    /\ at \in {"got", "items"} => next < polled
    /\ at \in {"down", "idle", "edit", "expire", "note"} => next = polled
    /\ at = "items" => offset = polled
    /\ at \in Making \cup {"classify"} => offset = polled /\ next < polled
    /\ \A c \in DOMAIN sources \cup DOMAIN cards : c[1] = "idea" /\ c # Legacy =>
        /\ c[2] \in Nat /\ c[2] < offset
        /\ c[2] < next \/ (c[2] = next /\ at \in Making)

\* A source that is about to be written is the card's first, the one it has, or that one
\* amended.
SourceInv ==
    /\ \A c \in DOMAIN sources \ DOMAIN cards : c[1] = "made" => sources[c] = c[2]
    /\ at = "source" /\ hand.new => hand.card \in {<<"idea", next>>, <<"made", hand.pid>>}
    /\ at \in {"put", "draft"} /\ hand.new => hand.card \in DOMAIN sources
    /\ at = "source" /\ hand.card \in DOMAIN sources =>
        \/ hand.pid = sources[hand.card]
        \/ \E t \in Texts : hand.pid = AmendedBy(sources[hand.card], t)

ChainInv == TextInv /\ AnswerInv /\ TurnInv /\ SourceInv

\* An amended id names its base.
LEMMA AmendedOnce ==
    ASSUME NEW p, NEW q, Id(p), Id(q), NEW t \in Texts, NEW u \in Texts,
           AmendedBy(p, t) = AmendedBy(q, u)
    PROVE  p = q
<1>1. PICK k, x : \E ts \in Seq(Texts) : p = <<k, x, ts>>
  BY DEF Id
<1>2. PICK ts \in Seq(Texts) : p = <<k, x, ts>>
  BY <1>1
<1>3. PICK l, y : \E us \in Seq(Texts) : q = <<l, y, us>>
  BY DEF Id
<1>4. PICK us \in Seq(Texts) : q = <<l, y, us>>
  BY <1>3
<1>5. AmendedBy(p, t) = <<k, x, Append(ts, t)>> /\ AmendedBy(q, u) = <<l, y, Append(us, u)>>
  BY <1>2, <1>4 DEF AmendedBy
<1>6. k = l /\ x = y /\ Append(ts, t) = Append(us, u)
  <2>1. PICK a, b : a = Append(ts, t) /\ b = Append(us, u)
    OBVIOUS
  <2>2. <<k, x, a>> = <<l, y, b>>
    BY <1>5, <2>1
  <2> QED BY <2>1, <2>2
<1>7. ts = us
  BY <1>6, AppendInjective
<1> QED BY <1>2, <1>4, <1>6, <1>7

\* A text that is filed is that of a new id, an amended one or one that is there.
LEMMA FiledText ==
    ASSUME IInv, ChainInv, NEW p, NEW body, File(p, body), UNCHANGED said, Id(p),
           \/ p[3] = <<>>
           \/ \E base \in DOMAIN proposals, t \in Texts, m \in DOMAIN said :
                p = AmendedBy(base, t) /\ body = Append(proposals[base], m)
    PROVE  TextInv'
<1>1. /\ DOMAIN proposals' = DOMAIN proposals \cup {p}
      /\ \A q \in DOMAIN proposals : proposals'[q] = proposals[q]
      /\ p \notin DOMAIN proposals => proposals'[p] = body
  BY FileKeeps
<1>2. ASSUME NEW q \in DOMAIN proposals', q[3] # <<>>
      PROVE  \E base \in DOMAIN proposals, t \in Texts, m \in DOMAIN said :
                q = AmendedBy(base, t) /\ proposals'[q] = Append(proposals[base], m)
  <2>1. CASE q \in DOMAIN proposals
    <3>1. \E base \in DOMAIN proposals, t \in Texts, m \in DOMAIN said :
            q = AmendedBy(base, t) /\ proposals[q] = Append(proposals[base], m)
      BY <1>2, <2>1 DEF ChainInv, TextInv
    <3>2. proposals'[q] = proposals[q]
      BY <1>1, <2>1
    <3> QED BY <3>1, <3>2
  <2>2. CASE q \notin DOMAIN proposals
    <3>1. q = p /\ proposals'[q] = body
      BY <1>1, <2>2
    <3> QED BY <1>2, <3>1
  <2> QED BY <2>1, <2>2
<1>3. \A q \in DOMAIN proposals' : Id(q)
  BY <1>1 DEF ChainInv, TextInv
<1>4. \A base \in DOMAIN proposals : base \in DOMAIN proposals' /\ proposals'[base] = proposals[base]
  BY <1>1
<1>5. ASSUME NEW q \in DOMAIN proposals', q[3] # <<>>
      PROVE  \E base \in DOMAIN proposals', t \in Texts, m \in DOMAIN said' :
                q = AmendedBy(base, t) /\ proposals'[q] = Append(proposals'[base], m)
  <2>1. PICK base \in DOMAIN proposals, t \in Texts, m \in DOMAIN said :
                q = AmendedBy(base, t) /\ proposals'[q] = Append(proposals[base], m)
    BY <1>2, <1>5
  <2> QED BY <1>4, <2>1
<1>6. \A q \in DOMAIN proposals' : Id(q)'
  BY <1>3 DEF Id
<1> QED BY <1>5, <1>6 DEF TextInv, Id, AmendedBy

\* The texts stay when nothing is filed.
LEMMA TextKeeps ==
    ASSUME ChainInv, UNCHANGED proposals, \A m \in DOMAIN said : m \in DOMAIN said'
    PROVE  TextInv'
<1>1. ASSUME NEW q \in DOMAIN proposals, q[3] # <<>>
      PROVE  \E base \in DOMAIN proposals, t \in Texts, m \in DOMAIN said' :
               q = AmendedBy(base, t) /\ proposals[q] = Append(proposals[base], m)
  BY <1>1 DEF ChainInv, TextInv
<1>2. \A q \in DOMAIN proposals : Id(q)
  BY DEF ChainInv, TextInv
<1>3. \A q \in DOMAIN proposals' : Id(q)'
  BY <1>2 DEF Id
<1>4. ASSUME NEW q \in DOMAIN proposals', q[3] # <<>>
      PROVE  \E base \in DOMAIN proposals', t \in Texts, m \in DOMAIN said' :
               q = AmendedBy(base, t) /\ proposals'[q] = Append(proposals'[base], m)
  BY <1>1, <1>4
<1> QED BY <1>3, <1>4 DEF TextInv, Id, AmendedBy

\* Every step keeps the texts.
LEMMA TextStep == IInv /\ ChainInv /\ Next => TextInv'
<1> SUFFICES ASSUME IInv, ChainInv, Next PROVE TextInv'
  OBVIOUS
<1>1. CASE FileNote \/ FileObjective
  <2>1. /\ File(TextOf(next), <<next>>) /\ UNCHANGED said
    BY <1>1 DEF FileNote, FileObjective, chat
  <2>2. Id(TextOf(next)) /\ TextOf(next)[3] = <<>>
    BY EmptySeq DEF Id, TextOf
  <2> QED BY <2>1, <2>2, FiledText
<1>2. CASE FileLegacy \/ NoteExpired
  <2>1. /\ File(NoteOf(hand.card), cards[hand.card].kept) /\ UNCHANGED said
    BY <1>2 DEF FileLegacy, NoteExpired, chat
  <2>2. Id(NoteOf(hand.card)) /\ NoteOf(hand.card)[3] = <<>>
    BY EmptySeq DEF Id, NoteOf
  <2> QED BY <2>1, <2>2, FiledText
<1>3. CASE Amend
  <2>1. PICK base, t, m : base = sources[hand.card] /\ t = said[hand.answer].text /\ m = hand.answer
    OBVIOUS
  <2>2. /\ File(AmendedBy(base, t), Append(proposals[base], m)) /\ UNCHANGED said
        /\ base \in DOMAIN proposals /\ t \in Texts /\ m \in DOMAIN said
    BY <1>3, <2>1 DEF Amend, IInv, BodyInv, ChainInv, AnswerInv, chat
  <2>3. Id(AmendedBy(base, t))
    <3>1. PICK k, x : \E ts \in Seq(Texts) : base = <<k, x, ts>>
      BY <2>2 DEF ChainInv, TextInv, Id
    <3>2. PICK ts \in Seq(Texts) : base = <<k, x, ts>>
      BY <3>1
    <3>3. AmendedBy(base, t) = <<k, x, Append(ts, t)>> /\ Append(ts, t) \in Seq(Texts)
      BY <2>2, <3>2 DEF AmendedBy
    <3> QED BY <3>3 DEF Id
  <2> QED BY <2>2, <2>3, FiledText
<1>5. CASE Says
  <2>1. \A m \in DOMAIN said : m \in DOMAIN said'
    <3>1. PICK e : said' = Append(said, e)
      BY <1>5 DEF Says
    <3>2. DOMAIN said = 1..Len(said) /\ DOMAIN said' = 1..(Len(said) + 1) /\ Len(said) \in Nat
      BY <3>1, AppendAny DEF IInv, QueueInv
    <3> QED BY <3>2
  <2> QED BY <1>5, <2>1, TextKeeps DEF Says
<1>6. CASE \/ FirstStart \/ Poll \/ StoreOffset \/ CardCommand \/ Answers \/ SetSource \/ PutCard
           \/ AskQuestion \/ NoOwners \/ DraftUnavailable \/ DraftIncomplete \/ DraftStored
           \/ PartSent \/ Taps \/ ExpirePass \/ (\E c \in expiring : Expire(c)) \/ Raises \/ Crash
  <2>1. UNCHANGED <<said, proposals>>
    BY <1>6 DEF FirstStart, Poll, StoreOffset, CardCommand, Answers, SetSource, PutCard, AskQuestion,
         NoOwners, DraftUnavailable, DraftIncomplete, DraftStored, PartSent, Taps, TapYes, TapEdit,
         TapDrop, EditAsks, ExpirePass, Expire, Raises, Crash, chat
  <2> QED BY <2>1, TextKeeps
<1> QED BY <1>1, <1>2, <1>3, <1>5, <1>6 DEF Next, HandleText, Hourly

\* Every step keeps what is known of the answer in hand.
LEMMA AnswerStep == IInv /\ ChainInv /\ Next => AnswerInv'
<1> SUFFICES ASSUME IInv, ChainInv, Next PROVE AnswerInv'
  OBVIOUS
<1>1. CASE Says
  <2>1. PICK e : said' = Append(said, e) /\ e.text \in Texts \cup {None}
    <3>1. CASE \E t \in Texts : said' = Append(said, [text |-> t, card |-> None])
      BY <3>1
    <3>2. CASE \E r : said' = Append(said, [text |-> None, card |-> r])
      BY <3>2
    <3> QED BY <1>1, <3>1, <3>2 DEF Says
  <2>2. /\ DOMAIN said = 1..Len(said) /\ DOMAIN said' = 1..(Len(said) + 1) /\ Len(said) \in Nat
        /\ \A i \in DOMAIN said : said'[i] = said[i]
        /\ said'[Len(said) + 1] = e
    BY <2>1, AppendAny DEF IInv, QueueInv
  <2>3. ASSUME NEW m \in DOMAIN said' PROVE said'[m].text \in Texts \cup {None}
    <3>1. CASE m \in DOMAIN said
      BY <2>2, <3>1 DEF ChainInv, AnswerInv
    <3>2. CASE m = Len(said) + 1
      BY <2>1, <2>2, <3>2
    <3> QED BY <2>2, <2>3, <3>1, <3>2
  <2>4. UNCHANGED hand /\ \A m \in DOMAIN said : m \in DOMAIN said' /\ said'[m] = said[m]
    BY <1>1, <2>2 DEF Says, daemon
  <2> QED BY <2>3, <2>4 DEF ChainInv, AnswerInv
<1>2. CASE ~Says
  <2>1. UNCHANGED said
    BY <1>2 DEF Next, HandleText, Taps, Hourly, FirstStart, Poll, StoreOffset, CardCommand, Answers,
         FileNote, FileObjective, SetSource, PutCard, AskQuestion, NoOwners, FileLegacy, Amend,
         DraftUnavailable, DraftIncomplete, DraftStored, PartSent, TapYes, TapEdit, TapDrop,
         EditAsks, ExpirePass, Expire, NoteExpired, Raises, Crash, chat
  <2>2. CASE Answers
    <3>1. hand' \in {hand, [Idle EXCEPT !.card = open, !.answer = next]} /\ Item /\ Text # None
      BY <2>2 DEF Answers, Drafts
    <3>2. next \in DOMAIN said /\ said[next].text \in Texts
      <4>1. next \in DOMAIN said
        BY <3>1, AppendAny DEF Item, IInv, QueueInv
      <4> QED BY <3>1, <4>1 DEF Text, ChainInv, AnswerInv
    <3>3. hand'.answer \in {hand.answer, next}
      BY <3>1 DEF Idle
    <3> QED BY <2>1, <3>2, <3>3 DEF ChainInv, AnswerInv
  <2>3. CASE ~Answers
    <3>1. hand'.answer \in {0, hand.answer}
      <4>1. DOMAIN hand = {"card", "answer", "pid", "new", "then", "part"}
        BY DEF IInv, HandInv
      <4>2. CASE FirstStart \/ Poll \/ StoreOffset \/ FileNote \/ SetSource \/ PutCard
                 \/ AskQuestion \/ NoOwners
        BY <4>2 DEF FirstStart, Poll, StoreOffset, FileNote, SetSource, PutCard, AskQuestion,
             NoOwners, Done, Idle
      <4>3. CASE CardCommand \/ FileObjective
        <5>1. \/ hand' = Idle
              \/ \E c : hand' = [Idle EXCEPT !.card = c, !.answer = 0]
              \/ \E c, p, then :
                    hand' = [Idle EXCEPT !.card = c, !.pid = p, !.new = TRUE, !.then = then]
          BY <4>3 DEF CardCommand, Drafts, FileObjective, Done
        <5>2. CASE \E c : hand' = [Idle EXCEPT !.card = c, !.answer = 0]
          BY <5>2 DEF Idle
        <5>3. CASE \E c, p, then :
                    hand' = [Idle EXCEPT !.card = c, !.pid = p, !.new = TRUE, !.then = then]
          BY <5>3 DEF Idle
        <5>4. CASE hand' = Idle
          BY <5>4 DEF Idle
        <5> QED BY <5>1, <5>2, <5>3, <5>4
      <4>5. CASE FileLegacy \/ Amend
        <5>1. \E p, then : hand' = [hand EXCEPT !.pid = p, !.then = then]
          BY <4>5 DEF FileLegacy, Amend
        <5> QED BY <4>1, <5>1
      <4>6. CASE PartSent
        <5>1. Done \/ hand' = hand \/ \E part : hand' = [hand EXCEPT !.part = part]
          BY <4>6 DEF PartSent
        <5> QED BY <4>1, <5>1 DEF Done, Idle
      <4>4. CASE DraftUnavailable \/ DraftIncomplete \/ DraftStored \/ Taps \/ Hourly \/ Raises
                 \/ Crash
        BY <4>4 DEF DraftUnavailable, DraftIncomplete, DraftStored, Taps, TapYes, TapEdit, TapDrop,
             EditAsks, Hourly, ExpirePass, Expire, NoteExpired, Raises, Crash, Done, Idle, daemon
      <4> QED BY <1>2, <2>3, <4>2, <4>3, <4>4, <4>5, <4>6 DEF Next, HandleText
    <3> QED BY <2>1, <3>1 DEF ChainInv, AnswerInv
  <2> QED BY <2>2, <2>3
<1> QED BY <1>1, <1>2

\* The ideas whose cards or sources there are.
Ideas == {c \in DOMAIN sources \cup DOMAIN cards : c[1] = "idea" /\ c # Legacy}

\* An item that is done leaves its idea behind.
LEMMA TurnDone ==
    ASSUME IInv, ChainInv, Done, UNCHANGED <<offset, polled>>, Ideas' \subseteq Ideas,
           at \in Making \cup {"items", "classify", "edit"}
    PROVE  TurnInv'
<1>1. {offset, polled, next} \subseteq Nat
  BY DEF IInv, QueueInv
<1>2. \A c \in Ideas' : c[2] \in Nat /\ c[2] < offset
                      /\ (c[2] < next \/ (c[2] = next /\ at \in Making))
  BY DEF Ideas, ChainInv, TurnInv
<1>3. offset <= polled /\ next <= polled /\ (next < polled => next' = next + 1)
      /\ (~(next < polled) => next' = next)
  BY DEF ChainInv, TurnInv, Done
<1>4. \/ at' = "idle" /\ (next < polled => next + 1 = polled)
      \/ at' = "items" /\ next + 1 # polled /\ next < polled
  BY DEF Done
<1>5. at \in Making => next < polled
  BY DEF ChainInv, TurnInv
<1>6. \A c \in Ideas' : c[2] \in Nat /\ c[2] < offset /\ c[2] < next'
  BY <1>1, <1>2, <1>3, <1>5
<1>7. at' = "items" => offset = polled
  BY <1>1, <1>4 DEF ChainInv, TurnInv
<1>8. at' = "idle" => next' = polled
  BY <1>1, <1>3, <1>4
<1> QED BY <1>1, <1>3, <1>4, <1>6, <1>7, <1>8 DEF TurnInv, Ideas, Making

\* While an item is handled the only new idea is the item.
LEMMA TurnStays ==
    ASSUME IInv, ChainInv, UNCHANGED <<offset, polled, next>>, next < polled,
           at \in Making \cup {"classify", "items"}, at' \in Making \cup {"classify"},
           at \in Making => at' \in Making,
           \A c \in Ideas' \ Ideas : c[2] = next /\ at' \in Making
    PROVE  TurnInv'
<1>1. {offset, polled, next} \subseteq Nat /\ offset = polled
  BY DEF IInv, QueueInv, ChainInv, TurnInv
<1>2. \A c \in Ideas : c[2] \in Nat /\ c[2] < offset
                      /\ (c[2] < next \/ (c[2] = next /\ at \in Making))
  BY DEF Ideas, ChainInv, TurnInv
<1>3. \A c \in Ideas' : c[2] \in Nat /\ c[2] < offset
                      /\ (c[2] < next \/ (c[2] = next /\ at' \in Making))
  BY <1>1, <1>2
<1> QED BY <1>1, <1>3 DEF TurnInv, Ideas, Making

\* The moves of the queue itself.
LEMMA TurnMoves ==
    ASSUME IInv, ChainInv, {polled', next', offset'} \subseteq Nat, Ideas' \subseteq Ideas,
           offset <= offset', offset' <= polled', next' <= polled',
           next < next' \/ next' = offset \/ (next <= next' /\ at \notin Making),
           at' \notin Making \cup {"classify"},
           IF at' \in {"got", "items"} THEN next' < polled' ELSE next' = polled',
           at' = "items" => offset' = polled'
    PROVE  TurnInv'
<1>1. {offset, polled, next} \subseteq Nat
  BY DEF IInv, QueueInv
<1>2. \A c \in Ideas : c[2] \in Nat /\ c[2] < offset
                      /\ (c[2] < next \/ (c[2] = next /\ at \in Making))
  BY DEF Ideas, ChainInv, TurnInv
<1>3. \A c \in Ideas' : c[2] \in Nat /\ c[2] < offset' /\ c[2] < next'
  BY <1>1, <1>2
<1> QED BY <1>3 DEF TurnInv, Ideas, Making

\* Every step keeps the turns.
LEMMA TurnStep == IInv /\ IInv' /\ ChainInv /\ Next => TurnInv'
<1> SUFFICES ASSUME IInv, IInv', ChainInv, Next PROVE TurnInv'
  OBVIOUS
<1>1. {offset, polled, next} \subseteq Nat /\ {offset', polled', next'} \subseteq Nat
  BY DEF IInv, QueueInv
<1>2. /\ offset <= polled /\ next <= polled
      /\ at \in {"got", "items"} => next < polled
      /\ at \in {"down", "idle", "edit", "expire", "note"} => next = polled
      /\ at = "items" => offset = polled
      /\ at \in Making \cup {"classify"} => offset = polled /\ next < polled
  BY DEF ChainInv, TurnInv
<1>3. ASSUME NEW s \in {"granted", "drafting", "dropped", "expired"}, NEW c, SetStatus(c, s),
             UNCHANGED sources
      PROVE  Ideas' \subseteq Ideas
  BY <1>3 DEF SetStatus, Ideas
<1>4. CASE Says \/ FirstStart \/ Poll \/ StoreOffset
  <2>1. Ideas' = Ideas
    BY <1>4 DEF Says, FirstStart, Poll, StoreOffset, store, Ideas
  <2>2. offset <= Len(said) + 1 /\ polled <= Len(said) + 1 /\ Len(said) \in Nat
    BY AppendAny DEF IInv, QueueInv
  <2>3. CASE Says
    BY <1>1, <1>2, <2>1, <2>3, TurnMoves DEF Says, daemon, Making
  <2>4. CASE FirstStart
    BY <1>1, <1>2, <2>1, <2>2, <2>4, TurnMoves DEF FirstStart, Making
  <2>5. CASE Poll
    BY <1>1, <1>2, <2>1, <2>2, <2>5, TurnMoves DEF Poll, Making
  <2>6. CASE StoreOffset
    BY <1>1, <1>2, <2>1, <2>2, <2>6, TurnMoves DEF StoreOffset, Making
  <2> QED BY <1>4, <2>3, <2>4, <2>5, <2>6
<1>5. ASSUME Done, UNCHANGED <<offset, polled, sources, cards>>,
             at \in Making \cup {"items", "classify", "edit"}
      PROVE  TurnInv'
  BY <1>5, TurnDone DEF Ideas
<1>6. CASE AskQuestion \/ DraftUnavailable \/ EditAsks \/ Raises \/ FileNote
  BY <1>5, <1>6 DEF AskQuestion, DraftUnavailable, EditAsks, Raises, FileNote, Reasons, Classifies,
       Item, store, Making
<1>7. CASE NoOwners
  <2>1. Ideas' \subseteq Ideas
    BY <1>3, <1>7 DEF NoOwners
  <2> QED BY <1>7, <2>1, TurnDone DEF NoOwners, Making
<1>8. CASE DraftIncomplete
  <2>1. CASE Done
    BY <1>5, <1>8, <2>1 DEF DraftIncomplete, Reasons, Making
  <2>2. CASE ~Done
    <3>1. /\ at' = "idle" /\ next' = polled /\ UNCHANGED <<offset, polled>> /\ Ideas' = Ideas
          /\ at \in {"model", "draft"}
      BY <1>8, <2>2 DEF DraftIncomplete, Reasons, Ideas
    <3> QED BY <1>1, <1>2, <3>1, TurnMoves DEF Making
  <2> QED BY <2>1, <2>2
<1>9. CASE CardCommand \/ Answers
  <2>1. UNCHANGED <<offset, polled, sources, cards>> /\ at = "items"
    BY <1>9 DEF CardCommand, Answers, Item, chat, store
  <2>2. CASE Done
    BY <1>5, <2>1, <2>2
  <2>3. CASE ~Done
    <3>1. UNCHANGED next /\ at' \in {"draft", "source", "classify"}
      <4>1. CASE CardCommand
        BY <2>3, <4>1 DEF CardCommand, Drafts
      <4>2. CASE Answers
        BY <4>2 DEF Answers, Drafts, chat
      <4> QED BY <1>9, <4>1, <4>2
    <3>2. Ideas' = Ideas
      BY <2>1 DEF Ideas
    <3> QED BY <1>1, <1>2, <2>1, <3>1, <3>2, TurnStays DEF Making
  <2> QED BY <2>2, <2>3
<1>10. CASE FileObjective \/ FileLegacy \/ Amend
  <2>1. /\ UNCHANGED <<offset, polled, next>> /\ Ideas' = Ideas
        /\ at \in {"classify", "items", "draft"} /\ at' = "source"
    BY <1>10 DEF FileObjective, FileLegacy, Amend, Classifies, Item, Ideas, chat, store
  <2> QED BY <1>1, <1>2, <2>1, TurnStays DEF Making
<1>11. CASE SetSource
  <2>1. /\ UNCHANGED <<offset, polled, next>> /\ at = "source"
        /\ at' \in {"put", "ask", "draft", "model"}
    BY <1>11 DEF SetSource, IInv, PlaceInv, chat
  <2>2. Ideas' \subseteq Ideas \cup {<<"idea", next>>}
    <3>1. Ideas' \subseteq Ideas \cup {hand.card}
      BY <1>11 DEF SetSource, Ideas
    <3>2. CASE ~hand.new
      BY <1>11, <3>1, <3>2 DEF SetSource, Ideas, IInv, PlaceInv
    <3>3. CASE hand.new
      <4>1. hand.card = <<"idea", next>> \/ \E p : hand.card = <<"made", p>>
        BY <2>1, <3>3 DEF ChainInv, SourceInv
      <4> QED BY <3>1, <4>1 DEF Ideas
    <3> QED BY <3>2, <3>3
  <2> QED BY <1>1, <1>2, <2>1, <2>2, TurnStays DEF Making
<1>12. CASE PutCard \/ DraftStored
  <2>1. /\ UNCHANGED <<offset, polled, next, sources>> /\ at \in Making /\ at' \in Making
    BY <1>12 DEF PutCard, DraftStored, IInv, PlaceInv, Reasons, Making, chat
  <2>2. DOMAIN cards' = DOMAIN cards \cup {hand.card}
    BY <1>12 DEF PutCard, DraftStored, Put
  <2>3. hand.card \in DOMAIN sources \cup DOMAIN cards
    BY <1>12 DEF PutCard, DraftStored, ChainInv, SourceInv, IInv, PlaceInv, Reasons
  <2>4. Ideas' \subseteq Ideas
    BY <2>1, <2>2, <2>3 DEF Ideas
  <2> QED BY <1>1, <1>2, <2>1, <2>4, TurnStays DEF Making
<1>13. CASE PartSent
  <2>1. DOMAIN cards' = DOMAIN cards /\ UNCHANGED <<offset, polled, sources>> /\ at = "show"
    BY <1>13 DEF PartSent
  <2>2. Ideas' \subseteq Ideas
    BY <2>1 DEF Ideas
  <2>3. CASE Done
    BY <2>1, <2>2, <2>3, TurnDone DEF Making
  <2>4. CASE ~Done
    <3>1. UNCHANGED <<at, next>>
      BY <1>13, <2>4 DEF PartSent
    <3> QED BY <1>1, <1>2, <2>1, <2>2, <3>1, TurnStays DEF Making
  <2> QED BY <2>3, <2>4
<1>14. CASE (\E c \in DOMAIN cards : TapYes(c) \/ TapEdit(c) \/ TapDrop(c)) \/ Hourly \/ Crash
  <2>1. Ideas' \subseteq Ideas
    <3>1. CASE \E c \in DOMAIN cards : TapYes(c) \/ TapEdit(c) \/ TapDrop(c)
      BY <1>3, <3>1 DEF TapYes, TapEdit, TapDrop
    <3>2. CASE \E c \in expiring : Expire(c)
      BY <1>3, <3>2 DEF Expire
    <3>3. CASE ExpirePass \/ NoteExpired \/ Crash
      BY <3>3 DEF ExpirePass, NoteExpired, Crash, store, Ideas
    <3> QED BY <1>14, <3>1, <3>2, <3>3 DEF Hourly
  <2>2. /\ UNCHANGED offset
        /\ \/ UNCHANGED <<polled, next>> /\ at \in {"idle", "expire", "note"}
           \/ polled' = offset /\ next' = offset
        /\ at' \in {"idle", "edit", "expire", "note"}
    BY <1>14 DEF TapYes, TapEdit, TapDrop, Hourly, ExpirePass, Expire, NoteExpired, Crash, chat,
         daemon
  <2> QED BY <1>1, <1>2, <2>1, <2>2, TurnMoves DEF Making
<1> QED BY <1>4, <1>6, <1>7, <1>8, <1>9, <1>10, <1>11, <1>12, <1>13, <1>14 DEF Next, HandleText, Taps

\* Every step keeps what is known of the source that is written.
LEMMA SourceStep == IInv /\ ChainInv /\ Next => SourceInv'
<1> SUFFICES ASSUME IInv, ChainInv, Next PROVE SourceInv'
  OBVIOUS
<1>1. \A c \in DOMAIN sources \ DOMAIN cards : c[1] = "made" => sources[c] = c[2]
  BY DEF ChainInv, SourceInv
<1>2. ASSUME at' \notin {"source", "put"}, at' = "draft" => ~hand'.new,
             UNCHANGED sources, DOMAIN cards \subseteq DOMAIN cards'
      PROVE  SourceInv'
  BY <1>1, <1>2 DEF SourceInv
<1>3. CASE \/ Says \/ FirstStart \/ Poll \/ StoreOffset \/ FileNote \/ AskQuestion
           \/ DraftUnavailable \/ DraftIncomplete \/ EditAsks \/ ExpirePass \/ NoteExpired
           \/ Raises \/ Crash
  <2>1. at' \notin {"source", "put", "draft"} /\ UNCHANGED <<sources, cards>>
    BY <1>3 DEF Says, FirstStart, Poll, StoreOffset, FileNote, AskQuestion,
         DraftUnavailable, DraftIncomplete, EditAsks, ExpirePass, NoteExpired, Raises, Crash, Done,
         store, daemon
  <2> QED BY <1>2, <2>1
<1>4. CASE NoOwners \/ DraftStored \/ PartSent
  <2>1. DOMAIN cards \subseteq DOMAIN cards' /\ UNCHANGED sources
    BY <1>4 DEF NoOwners, DraftStored, PartSent, SetStatus, Put
  <2>2. at' \notin {"source", "put", "draft"}
    BY <1>4 DEF NoOwners, DraftStored, PartSent, Done
  <2> QED BY <1>2, <2>1, <2>2
<1>11. CASE PutCard
  <2>1. DOMAIN cards \subseteq DOMAIN cards' /\ UNCHANGED <<sources, hand>>
    BY <1>11 DEF PutCard, Put
  <2>2. at' \in {"ask", "draft"} /\ hand.card \in DOMAIN sources
    BY <1>11 DEF PutCard, IInv, PlaceInv, ChainInv, SourceInv
  <2> QED BY <1>1, <2>1, <2>2 DEF SourceInv
<1>12. CASE Answers
  <2>1. UNCHANGED <<sources, cards>>
    BY <1>12 DEF Answers
  <2>2. \/ at' = "classify"
        \/ at' = "draft" /\ \E c : hand' = [Idle EXCEPT !.card = c, !.answer = next]
    BY <1>12 DEF Answers, Drafts
  <2>3. at' \notin {"source", "put"} /\ (at' = "draft" => ~hand'.new)
    BY <2>2 DEF Idle
  <2> QED BY <1>2, <2>1, <2>3
<1>5. CASE (\E c \in DOMAIN cards : TapYes(c) \/ TapEdit(c) \/ TapDrop(c))
           \/ (\E c \in expiring : Expire(c))
  BY <1>2, <1>5 DEF TapYes, TapEdit, TapDrop, Expire, SetStatus, daemon
<1>6. CASE CardCommand
  <2>1. UNCHANGED <<cards, sources>>
    BY <1>6 DEF CardCommand, store
  <2>2. CASE at' # "source"
    <3>1. \/ at' \in {"idle", "items"}
          \/ at' = "draft" /\ \E c : hand' = [Idle EXCEPT !.card = c, !.answer = 0]
      BY <1>6, <2>2 DEF CardCommand, Drafts, Done
    <3>2. at' \notin {"source", "put"} /\ (at' = "draft" => ~hand'.new)
      BY <3>1 DEF Idle
    <3> QED BY <1>2, <2>1, <3>2
  <2>3. CASE at' = "source"
    <3>1. /\ Referred \notin DOMAIN cards
          /\ hand' = [Idle EXCEPT !.card = Referred, !.pid = said[next].card, !.new = TRUE,
                                  !.then = "draft"]
      BY <1>6, <2>3 DEF CardCommand, Drafts, Done
    <3>2. PICK p : p = said[next].card
      OBVIOUS
    <3>3. Referred = <<"made", p>>
      BY <3>1, <3>2 DEF Referred
    <3>4. hand'.card = <<"made", p>> /\ hand'.pid = p
      <4>1. hand' = [Idle EXCEPT !.card = <<"made", p>>, !.pid = p, !.new = TRUE, !.then = "draft"]
        BY <3>1, <3>2, <3>3
      <4> QED BY <4>1 DEF Idle
    <3>5. <<"made", p>> \in DOMAIN sources => sources[<<"made", p>>] = p
      BY <1>1, <3>1, <3>3
    <3> QED BY <1>1, <2>1, <2>3, <3>4, <3>5 DEF SourceInv
  <2> QED BY <2>2, <2>3
<1>7. CASE FileObjective
  <2>1. /\ UNCHANGED <<cards, sources, next>> /\ at' = "source" /\ at \in {"classify", "items"}
        /\ \E p, then : hand' = [Idle EXCEPT !.card = <<"idea", next>>, !.pid = p, !.new = TRUE,
                                             !.then = then]
    BY <1>7 DEF FileObjective, Classifies, Item, chat, store
  <2>2. hand'.card = <<"idea", next>>
    BY <2>1 DEF Idle
  <2>3. <<"idea", next>> \notin DOMAIN sources
    <3>1. next \in Nat /\ next # 0 /\ at \notin Making
      BY <2>1 DEF IInv, QueueInv, Making
    <3>2. <<"idea", next>> # Legacy
      BY <3>1 DEF Legacy
    <3>3. \A c \in DOMAIN sources : c[1] = "idea" /\ c # Legacy => c[2] < next \/ at \in Making
      BY DEF ChainInv, TurnInv
    <3> QED BY <3>1, <3>2, <3>3
  <2> QED BY <1>1, <2>1, <2>2, <2>3 DEF SourceInv
<1>8. CASE FileLegacy
  <2>1. /\ UNCHANGED <<cards, sources, next>> /\ at = "draft" /\ at' = "source"
        /\ hand.card \notin DOMAIN sources
        /\ hand' = [hand EXCEPT !.pid = NoteOf(hand.card), !.then = "draft"]
    BY <1>8 DEF FileLegacy, chat, store
  <2>2. hand'.card = hand.card /\ hand'.new = hand.new /\ ~hand.new
    BY <2>1 DEF IInv, HandInv, ChainInv, SourceInv
  <2> QED BY <1>1, <2>1, <2>2 DEF SourceInv
<1>9. CASE Amend
  <2>1. PICK t, pid : t = said[hand.answer].text /\ pid = AmendedBy(sources[hand.card], t)
    OBVIOUS
  <2>2. /\ UNCHANGED <<cards, sources, next>> /\ at = "draft" /\ at' = "source"
        /\ hand' = [hand EXCEPT !.pid = pid, !.then = "model"] /\ hand.answer # 0
    BY <1>9, <2>1 DEF Amend, chat, store
  <2>3. hand'.card = hand.card /\ hand'.pid = pid /\ hand'.new = hand.new /\ ~hand.new
    BY <2>2 DEF IInv, HandInv
  <2>4. t \in Texts
    BY <2>1, <2>2 DEF ChainInv, AnswerInv
  <2>5. sources'[hand'.card] = sources[hand.card]
    BY <2>2, <2>3
  <2>6. \E u \in Texts : hand'.pid = AmendedBy(sources'[hand'.card], u)
    BY <2>1, <2>3, <2>4, <2>5
  <2> QED BY <1>1, <2>2, <2>3, <2>6 DEF SourceInv, AmendedBy
<1>10. CASE SetSource
  <2>1. /\ UNCHANGED <<cards, hand>> /\ at = "source" /\ at' \in {"put", "ask", "draft", "model"}
        /\ DOMAIN sources' = DOMAIN sources \cup {hand.card}
        /\ \A c \in DOMAIN sources : c # hand.card => sources'[c] = sources[c]
        /\ sources'[hand.card] = hand.pid
    BY <1>10 DEF SetSource, IInv, PlaceInv
  <2>2. ASSUME NEW c \in DOMAIN sources' \ DOMAIN cards', c[1] = "made" PROVE sources'[c] = c[2]
    <3>1. CASE c # hand.card
      BY <1>1, <2>1, <2>2, <3>1
    <3>2. CASE c = hand.card
      <4>1. hand.new
        BY <2>1, <2>2, <3>2 DEF IInv, PlaceInv
      <4>2. c \in {<<"idea", next>>, <<"made", hand.pid>>}
        BY <2>1, <3>2, <4>1 DEF ChainInv, SourceInv
      <4>3. c = <<"made", hand.pid>>
        BY <2>2, <4>2
      <4> QED BY <2>1, <3>2, <4>3
    <3> QED BY <3>1, <3>2
  <2> QED BY <2>1, <2>2 DEF SourceInv
<1> QED BY <1>3, <1>4, <1>5, <1>6, <1>7, <1>8, <1>9, <1>10, <1>11, <1>12
       DEF Next, HandleText, Taps, Hourly

\* The chain holds before the first start, and every step keeps it.
LEMMA ChainStep ==
    /\ Init => ChainInv
    /\ IInv /\ IInv' /\ ChainInv /\ [Next]_vars => ChainInv'
<1>1. Init => ChainInv
  <2> SUFFICES ASSUME Init PROVE ChainInv
    OBVIOUS
  <2>1. TextInv
    BY DEF Init, TextInv
  <2>2. AnswerInv
    BY DEF Init, AnswerInv, Idle
  <2>3. TurnInv
    BY DEF Init, TurnInv, Making
  <2>4. SourceInv
    BY DEF Init, SourceInv
  <2> QED BY <2>1, <2>2, <2>3, <2>4 DEF ChainInv
<1>2. ASSUME IInv, IInv', ChainInv, [Next]_vars PROVE ChainInv'
  <2>1. CASE Next
    BY <1>2, <2>1, TextStep, AnswerStep, TurnStep, SourceStep DEF ChainInv
  <2>2. CASE UNCHANGED vars
    <3>1. TextInv'
      BY <1>2, <2>2, TextKeeps DEF vars, chat
    <3>2. AnswerInv' /\ TurnInv' /\ SourceInv'
      BY <1>2, <2>2 DEF vars, chat, store, daemon, ChainInv, AnswerInv, TurnInv, SourceInv, AmendedBy
    <3> QED BY <3>1, <3>2 DEF ChainInv
  <2> QED BY <1>2, <2>1, <2>2
<1> QED BY <1>1, <1>2

\* A source that a step changes is amended by one message.
LEMMA SourceGrows ==
    ASSUME IInv, ChainInv, [Next]_vars, NEW c \in DOMAIN sources, sources'[c] # sources[c]
    PROVE  \E m \in DOMAIN said : proposals'[sources'[c]] = Append(proposals[sources[c]], m)
<1>1. SetSource
  BY DEF Next, HandleText, Taps, Hourly, vars, store, Says, FirstStart, Poll, StoreOffset,
       CardCommand, Answers, FileNote, FileObjective, PutCard, AskQuestion, NoOwners, FileLegacy,
       Amend, DraftUnavailable, DraftIncomplete, DraftStored, PartSent, TapYes, TapEdit, TapDrop,
       EditAsks, ExpirePass, Expire, NoteExpired, Raises, Crash
<1>2. c = hand.card /\ sources'[c] = hand.pid /\ UNCHANGED proposals /\ at = "source"
  BY <1>1 DEF SetSource
<1>3. PICK t \in Texts : hand.pid = AmendedBy(sources[c], t)
  BY <1>2 DEF ChainInv, SourceInv
<1>4. sources[c] \in DOMAIN proposals /\ hand.pid \in DOMAIN proposals
  BY <1>2 DEF IInv, BodyInv, PlaceInv
<1>5. Id(sources[c]) /\ Id(hand.pid)
  BY <1>4 DEF ChainInv, TextInv
<1>6. hand.pid[3] # <<>>
  <2>1. PICK k, x : \E ts \in Seq(Texts) : sources[c] = <<k, x, ts>>
    BY <1>5 DEF Id
  <2>2. PICK ts \in Seq(Texts) : sources[c] = <<k, x, ts>>
    BY <2>1
  <2>3. hand.pid[3] = Append(ts, t)
    BY <1>3, <2>2 DEF AmendedBy
  <2> QED BY <2>3, AppendProperties
<1>7. PICK base \in DOMAIN proposals, u \in Texts, m \in DOMAIN said :
        hand.pid = AmendedBy(base, u) /\ proposals[hand.pid] = Append(proposals[base], m)
  BY <1>4, <1>6 DEF ChainInv, TextInv
<1>8. Id(base)
  BY DEF ChainInv, TextInv
<1>9. base = sources[c]
  BY <1>3, <1>5, <1>7, <1>8, AmendedOnce
<1> QED BY <1>2, <1>7, <1>9

\* A source that a step changes is amended by one message: of all the ways to a card's source
\* (_source, _amend, handle_text, 'card <Q-id>', a crash between any two of the writes and a
\* proposal that is already stored) none drops what Matthew said before.
THEOREM AmendmentsGrow == Spec => AmendmentsAccumulate
<1>1. IInv /\ ChainInv /\ [Next]_vars =>
        [\A c \in DOMAIN sources :
            sources'[c] # sources[c] =>
                \E m \in DOMAIN said :
                    proposals'[sources'[c]] = Append(proposals[sources[c]], m)]_vars
  BY SourceGrows
<1>2. Spec => [](IInv /\ ChainInv)
  BY InitInv, NextInv, ChainStep, PTL DEF Spec
<1> QED BY <1>1, <1>2, PTL DEF Spec, AmendmentsAccumulate

-----------------------------------------------------------------------------
(* Whom an answer is for *)

\* While nothing has failed, the open question is the last that was asked.
AskInv ==
    /\ faults \in Nat
    /\ faults = 0 =>
        /\ open # None => open = asked
        /\ hand.answer # 0 => hand.card = asked

\* Every step keeps the question.
LEMMA AskStep == IInv /\ AskInv /\ [Next]_vars => AskInv'
<1> SUFFICES ASSUME IInv, AskInv, [Next]_vars PROVE AskInv'
  OBVIOUS
<1>1. DOMAIN hand = {"card", "answer", "pid", "new", "then", "part"}
  BY DEF IInv, HandInv
<1>2. CASE StoreOffset \/ AskQuestion \/ DraftIncomplete \/ EditAsks
  BY <1>2 DEF StoreOffset, AskQuestion, DraftIncomplete, EditAsks, Done, Idle, Fault, AskInv, store
<1>3. CASE \/ Says \/ FirstStart \/ Poll \/ FileNote \/ SetSource \/ PutCard \/ NoOwners
           \/ DraftUnavailable \/ DraftStored \/ ExpirePass \/ NoteExpired \/ UNCHANGED vars
  BY <1>3 DEF Says, FirstStart, Poll, FileNote, SetSource, PutCard, NoOwners, DraftUnavailable,
       DraftStored, ExpirePass, NoteExpired, vars, Done, Idle, AskInv, store, daemon, history
<1>4. CASE (\E c \in DOMAIN cards : TapYes(c) \/ TapEdit(c) \/ TapDrop(c))
           \/ (\E c \in expiring : Expire(c))
  BY <1>4 DEF TapYes, TapEdit, TapDrop, Expire, Idle, AskInv, daemon, history
<1>5. CASE Raises \/ Crash
  BY <1>5 DEF Raises, Crash, Fault, AskInv
<1>6. CASE CardCommand \/ FileObjective
  <2>1. /\ UNCHANGED <<open, asked, faults>>
        /\ \/ hand' = Idle
           \/ \E c : hand' = [Idle EXCEPT !.card = c, !.answer = 0]
           \/ \E c, p, then :
                hand' = [Idle EXCEPT !.card = c, !.pid = p, !.new = TRUE, !.then = then]
    BY <1>6 DEF CardCommand, Drafts, FileObjective, Done, store, history
  <2>2. hand'.answer = 0
    <3>1. CASE hand' = Idle
      BY <3>1 DEF Idle
    <3>2. CASE \E c : hand' = [Idle EXCEPT !.card = c, !.answer = 0]
      BY <3>2 DEF Idle
    <3>3. CASE \E c, p, then :
                hand' = [Idle EXCEPT !.card = c, !.pid = p, !.new = TRUE, !.then = then]
      BY <3>3 DEF Idle
    <3> QED BY <2>1, <3>1, <3>2, <3>3
  <2> QED BY <2>1, <2>2 DEF AskInv
<1>7. CASE Answers
  <2>1. /\ open' = None /\ open # None /\ UNCHANGED <<asked, faults>>
        /\ hand' = hand \/ hand' = [Idle EXCEPT !.card = open, !.answer = next]
    BY <1>7 DEF Answers, Drafts, history
  <2>2. hand' = hand \/ hand'.card = open
    BY <2>1 DEF Idle
  <2> QED BY <2>1, <2>2 DEF AskInv
<1>8. CASE FileLegacy \/ Amend \/ PartSent
  <2>1. /\ UNCHANGED <<open, asked>>
        /\ UNCHANGED faults \/ Fault
        /\ \/ hand' = Idle \/ hand' = hand
           \/ \E p, then : hand' = [hand EXCEPT !.pid = p, !.then = then]
           \/ \E part : hand' = [hand EXCEPT !.part = part]
    BY <1>8 DEF FileLegacy, Amend, PartSent, Done, store, history
  <2>2. hand'.answer = 0 \/ (hand'.answer = hand.answer /\ hand'.card = hand.card)
    <3>1. CASE \E p, then : hand' = [hand EXCEPT !.pid = p, !.then = then]
      BY <1>1, <3>1
    <3>2. CASE \E part : hand' = [hand EXCEPT !.part = part]
      BY <1>1, <3>2
    <3>3. CASE hand' = Idle
      BY <3>3 DEF Idle
    <3> QED BY <2>1, <3>1, <3>2, <3>3
  <2>3. UNCHANGED <<open, asked>> /\ (UNCHANGED faults \/ (faults \in Nat /\ faults' = faults + 1))
    BY <2>1 DEF Fault, AskInv
  <2> QED BY <2>2, <2>3 DEF AskInv
<1> QED BY <1>2, <1>3, <1>4, <1>5, <1>6, <1>7, <1>8 DEF Next, HandleText, Taps, Hourly

\* All cards share the one open question (store.py's open_question), and every Edit, every
\* question and every unfit draft takes it: still, while nothing fails, a text that is taken
\* as an answer is for the card that Matthew was last asked about.
THEOREM AnswersReachTheirCard == Spec => []AnswersGoToAsked
<1>1. Init => AskInv
  BY DEF Init, AskInv, Idle
<1>2. AskInv => AnswersGoToAsked
  BY DEF AskInv, AnswersGoToAsked
<1> QED BY <1>1, <1>2, AskStep, Invariance, PTL DEF Spec

-----------------------------------------------------------------------------
(* The notes of expired cards *)

\* Each fault took at most one note.
NoteInv == faults \in Nat /\ IsFiniteSet(unnoted) /\ ExpiredIsNoted

\* The card of the note in hand.
InNote == IF at = "note" THEN {hand.card} ELSE {}

\* Every step keeps the notes.
LEMMA NoteStep == IInv /\ NoteInv /\ [Next]_vars => NoteInv'
<1> SUFFICES ASSUME IInv, NoteInv, [Next]_vars PROVE NoteInv'
  OBVIOUS
<1> USE DEF InNote
<1>1. faults \in Nat /\ IsFiniteSet(unnoted) /\ Cardinality(unnoted \ InNote) <= faults
  BY DEF NoteInv, ExpiredIsNoted
<1>2. ASSUME IsFiniteSet(unnoted'), faults' \in Nat, Cardinality(unnoted' \ InNote') <= faults'
      PROVE  NoteInv'
  BY <1>2 DEF NoteInv, ExpiredIsNoted
<1>3. IsFiniteSet(unnoted \ InNote) /\ Cardinality(unnoted \ InNote) \in Nat
  <2>1. IsFiniteSet(unnoted \ InNote)
    BY <1>1, FS_Subset
  <2> QED BY <2>1, FS_CardinalityType
<1>4. CASE \E c \in expiring : Expire(c)
  <2>1. PICK c \in expiring : Expire(c)
    BY <1>4
  <2>2. unnoted' \ InNote' \subseteq unnoted \ InNote /\ unnoted' = unnoted \cup {c} /\ UNCHANGED faults
    BY <2>1 DEF Expire, Idle
  <2>3. IsFiniteSet(unnoted')
    BY <1>1, <2>2, FS_AddElement
  <2>4. /\ Cardinality(unnoted' \ InNote') <= Cardinality(unnoted \ InNote)
        /\ Cardinality(unnoted' \ InNote') \in Nat
    <3>1. IsFiniteSet(unnoted' \ InNote')
      BY <1>3, <2>2, FS_Subset
    <3> QED BY <1>3, <2>2, <3>1, FS_Subset, FS_CardinalityType
  <2> QED BY <1>1, <1>2, <1>3, <2>2, <2>3, <2>4
<1>5. CASE NoteExpired
  <2>1. /\ at = "note" /\ at' # "note" /\ unnoted' = unnoted \ {hand.card} /\ UNCHANGED faults
    BY <1>5 DEF NoteExpired
  <2>2. unnoted' \ InNote' = unnoted \ InNote /\ unnoted' = unnoted \ InNote
    BY <2>1
  <2> QED BY <1>1, <1>2, <1>3, <2>1, <2>2
<1>6. CASE Crash
  <2>1. UNCHANGED unnoted /\ faults' = faults + 1 /\ at' = "idle"
    BY <1>6 DEF Crash, Fault
  <2>2. unnoted' \ InNote' = unnoted
    BY <2>1
  <2>3. Cardinality(unnoted) <= Cardinality(unnoted \ InNote) + 1
    <3>1. CASE at = "note"
      <4>1. unnoted \ InNote = unnoted \ {hand.card}
        BY <3>1
      <4>2. Cardinality(unnoted \ {hand.card}) \in {Cardinality(unnoted), Cardinality(unnoted) - 1}
        BY <1>1, FS_RemoveElement
      <4>3. Cardinality(unnoted \ InNote) \in {Cardinality(unnoted), Cardinality(unnoted) - 1}
        BY <4>1, <4>2
      <4>4. Cardinality(unnoted) \in Nat
        BY <1>1, FS_CardinalityType
      <4> HIDE DEF InNote
      <4> QED BY <4>3, <4>4
    <3>2. CASE at # "note"
      <4>1. unnoted \ InNote = unnoted
        BY <3>2
      <4> QED BY <1>3, <4>1
    <3> QED BY <3>1, <3>2
  <2>4. Cardinality(unnoted) \in Nat
    BY <1>1, FS_CardinalityType
  <2>5. faults' \in Nat /\ Cardinality(unnoted) <= faults'
    BY <1>1, <1>3, <2>1, <2>3, <2>4
  <2>6. Cardinality(unnoted' \ InNote') <= faults'
    BY <2>2, <2>5
  <2> QED BY <1>1, <1>2, <2>1, <2>5, <2>6
<1>7. CASE ~(\E c \in expiring : Expire(c)) /\ ~NoteExpired /\ ~Crash
  <2>1. UNCHANGED unnoted /\ faults' \in {faults, faults + 1}
    BY <1>7 DEF Next, HandleText, Taps, Hourly, vars, store, Says, FirstStart, Poll, StoreOffset,
         CardCommand, Answers, FileNote, FileObjective, SetSource, PutCard, AskQuestion, NoOwners,
         FileLegacy, Amend, DraftUnavailable, DraftIncomplete, DraftStored, PartSent, TapYes, TapEdit,
         TapDrop, EditAsks, ExpirePass, Raises, Fault, history
  <2>2. (at # "note" /\ at' # "note") \/ UNCHANGED <<at, hand>>
    <3>1. CASE SetSource \/ PutCard
      BY <3>1 DEF SetSource, PutCard, IInv, PlaceInv
    <3>2. CASE \/ FirstStart \/ Poll \/ StoreOffset \/ CardCommand \/ Answers \/ FileNote
               \/ FileObjective \/ AskQuestion \/ NoOwners \/ EditAsks
      BY <3>2 DEF FirstStart, Poll, StoreOffset, CardCommand, Answers, FileNote, FileObjective,
           AskQuestion, NoOwners, EditAsks, Done, Drafts, Classifies, Item
    <3>3. CASE FileLegacy \/ Amend \/ DraftUnavailable \/ DraftIncomplete \/ DraftStored
      BY <3>3 DEF FileLegacy, Amend, DraftUnavailable, DraftIncomplete, DraftStored, Reasons, Done
    <3>4. CASE PartSent
      BY <3>4 DEF PartSent, Done
    <3>5. CASE (\E c \in DOMAIN cards : TapYes(c) \/ TapEdit(c) \/ TapDrop(c)) \/ ExpirePass \/ Raises
      BY <3>5 DEF TapYes, TapEdit, TapDrop, ExpirePass, Raises, Done, daemon
    <3>6. CASE Says \/ UNCHANGED vars
      BY <3>6 DEF Says, vars, daemon
    <3> QED BY <1>7, <3>1, <3>2, <3>3, <3>4, <3>5, <3>6 DEF Next, HandleText, Taps, Hourly
  <2>3. unnoted' \ InNote' = unnoted \ InNote
    BY <2>1, <2>2
  <2>4. faults' \in Nat /\ Cardinality(unnoted \ InNote) <= faults'
    BY <1>1, <1>3, <2>1
  <2>5. Cardinality(unnoted' \ InNote') <= faults'
    BY <2>3, <2>4
  <2> QED BY <1>1, <1>2, <2>1, <2>4, <2>5
<1> QED BY <1>4, <1>5, <1>6, <1>7

\* A card is set to expired before its note is filed, and an expired card is not looked at
\* again (expire_cards): each fault costs at most one card its note, for any number of cards
\* that expire at once.
THEOREM ExpiriesAreNoted == Spec => []ExpiredIsNoted
<1>1. Init => NoteInv
  BY FS_EmptySet DEF Init, NoteInv, ExpiredIsNoted
<1>2. NoteInv => ExpiredIsNoted
  BY DEF NoteInv
<1> QED BY <1>1, <1>2, NoteStep, Invariance, PTL DEF Spec

-----------------------------------------------------------------------------
(* What becomes of a message *)

\* The item in hand is kept in a proposal by now: all but an answer that is not filed yet.
Filed ==
    /\ at \in Making
    /\ hand.answer # 0 => at # "draft" /\ (at = "source" => hand.then # "draft")

Last(p) == proposals[p][Len(proposals[p])]

\* A message ends the text of one proposal at most, and only since its turn has come.
UsedInv ==
    /\ hand.answer # 0 => at \in Making /\ hand.answer = next
    /\ \A p \in DOMAIN proposals \ Notes :
        Last(p) < offset /\ (Last(p) < next \/ (Last(p) = next /\ Filed))
    /\ \A p, q \in DOMAIN proposals \ Notes : Last(p) = Last(q) => p = q

\* Message m is kept, or the text that it amended something with.
Kept(m) ==
    \E p \in DOMAIN proposals :
        \/ \E i \in DOMAIN proposals[p] : proposals[p][i] = m
        \/ p[3] # <<>> /\ p[3][Len(p[3])] = said[m].text

\* Every text whose turn is over is kept, or Matthew was told.
KeptInv ==
    /\ \A p \in DOMAIN proposals : p[1] = "text" /\ p[3] = <<>> => proposals[p] = <<p[2]>>
    /\ \A m \in DOMAIN said :
        said[m].text # None /\ m \notin excused /\ (m < next \/ (m = next /\ Filed)) => Kept(m)

\* The steps that file the item in hand.
Files == FileNote \/ FileObjective \/ Amend

\* How a step moves the turn.
Moves ==
    /\ offset <= offset'
    /\ hand'.answer # 0 => at' \in Making /\ hand'.answer = next'
    /\ next < next' \/ next' = offset' \/ (next' = next /\ (Filed => Filed'))
    /\ \A m \in DOMAIN said :
        said[m].text # None /\ m \notin excused' /\ (m < next' \/ (m = next' /\ Filed')) =>
            m < next \/ (m = next /\ (Filed \/ Files))

\* What is known of the queue.
LEMMA Turns ==
    ASSUME IInv, ChainInv
    PROVE  /\ {offset, polled, next} \subseteq Nat
           /\ offset <= polled /\ next <= polled /\ polled <= Len(said) + 1
           /\ DOMAIN said = 1..Len(said) /\ Len(said) \in Nat
           /\ at \in {"got", "items"} => next < polled
           /\ at \in {"down", "idle", "edit", "expire", "note"} => next = polled
           /\ at = "items" => offset = polled
           /\ at \in Making \cup {"classify"} => offset = polled /\ next < polled
<1>1. Len(said) \in Nat /\ DOMAIN said = 1..Len(said)
  BY AppendAny DEF IInv, QueueInv
<1> QED BY <1>1 DEF IInv, QueueInv, ChainInv, TurnInv

\* An item that is done was kept or is excused.
LEMMA DoneMoves ==
    ASSUME IInv, ChainInv, UsedInv, Done, UNCHANGED offset,
           next < polled => Filed \/ Files \/ said[next].text = None \/ next \in excused'
    PROVE  Moves
<1>1. hand'.answer = 0 /\ at' \in {"idle", "items"} /\ ~Filed'
  BY DEF Done, Idle, Filed, Making
<1>2. IF next < polled THEN next' = next + 1 ELSE next' = next
  BY DEF Done
<1>3. {offset, polled, next} \subseteq Nat /\ (Filed => next < polled) /\ DOMAIN said \subseteq Nat
  BY Turns DEF Filed
<1>4. next < next' \/ (next' = next /\ (Filed => Filed'))
  BY <1>2, <1>3
<1>5. ASSUME NEW m \in DOMAIN said, said[m].text # None, m \notin excused', m < next'
      PROVE  m < next \/ (m = next /\ (Filed \/ Files))
  BY <1>2, <1>3, <1>5
<1> QED BY <1>1, <1>3, <1>4, <1>5 DEF Moves

\* Within an item nothing is forgotten.
LEMMA StayMoves ==
    ASSUME IInv, ChainInv, UsedInv, UNCHANGED <<offset, next, excused>>,
           hand'.answer # 0 => at' \in Making /\ hand'.answer = next,
           Filed => Filed',
           Filed' => Filed \/ Files \/ said[next].text = None
    PROVE  Moves
<1>1. {offset, polled, next} \subseteq Nat /\ DOMAIN said \subseteq Nat
  BY Turns
<1>2. ASSUME NEW m \in DOMAIN said, said[m].text # None, m < next' \/ (m = next' /\ Filed')
      PROVE  m < next \/ (m = next /\ (Filed \/ Files))
  BY <1>1, <1>2
<1> QED BY <1>1, <1>2 DEF Moves

\* The queue moves over what is excused only.
LEMMA QueueMoves ==
    ASSUME IInv, ChainInv, UsedInv, at' \notin Making, hand'.answer = 0, offset <= offset',
           next < next' \/ next' = offset' \/ (next' = next /\ at \notin Making),
           \A m \in DOMAIN said : m < next' /\ m \notin excused' => m < next
    PROVE  Moves
  BY DEF Moves, Filed

\* Every step but one of Matthew's moves the turn so.
LEMMA MoveStep == IInv /\ IInv' /\ ChainInv /\ UsedInv /\ [Next]_vars => Moves
<1> SUFFICES ASSUME IInv, IInv', ChainInv, UsedInv, [Next]_vars PROVE Moves
  OBVIOUS
<1>1. /\ {offset, polled, next} \subseteq Nat /\ offset <= polled /\ next <= polled
      /\ polled <= Len(said) + 1 /\ DOMAIN said = 1..Len(said) /\ Len(said) \in Nat
      /\ at \in {"got", "items"} => next < polled
      /\ at \in {"down", "idle", "edit", "expire", "note"} => next = polled
      /\ at = "items" => offset = polled
      /\ at \in Making \cup {"classify"} => offset = polled /\ next < polled
  BY Turns
<1>2. /\ DOMAIN hand = {"card", "answer", "pid", "new", "then", "part"}
      /\ hand.answer # 0 => at \in Making /\ hand.answer = next /\ ~hand.new
  BY DEF IInv, HandInv, UsedInv
<1>3. CASE Says \/ UNCHANGED vars
  BY <1>1, <1>2, <1>3 DEF Says, vars, chat, daemon, history, Moves, Filed, Making
<1>4. CASE FirstStart \/ Poll \/ StoreOffset
  <2>1. hand' = hand /\ at \in {"down", "idle", "got"} /\ at' \in {"idle", "got", "items"}
    BY <1>4 DEF FirstStart, Poll, StoreOffset
  <2>2. hand'.answer = 0 /\ at \notin Making /\ at' \notin Making
    BY <1>2, <2>1 DEF Making
  <2>3. offset <= offset' /\ next <= next'
    BY <1>1, <1>4 DEF FirstStart, Poll, StoreOffset
  <2>4. next < next' \/ next' = next
    <3>1. next' \in Nat
      BY <1>1, <1>4 DEF FirstStart, Poll, StoreOffset
    <3> QED BY <1>1, <2>3, <3>1
  <2>5. ASSUME NEW m \in DOMAIN said, m < next', m \notin excused' PROVE m < next
    BY <1>1, <1>4, <2>5 DEF FirstStart, Poll, StoreOffset, history
  <2> QED BY <2>2, <2>3, <2>4, <2>5, QueueMoves
<1>5. CASE Crash
  <2>1. hand' = Idle /\ at' = "idle" /\ next' = offset /\ UNCHANGED offset
        /\ excused' = excused \cup {m \in InHand : m < offset}
    BY <1>5 DEF Crash
  <2>2. \A m \in DOMAIN said : m < next' /\ m \notin excused' => m < next
    BY <1>1, <2>1 DEF InHand
  <2> QED BY <1>1, <2>1, <2>2, QueueMoves DEF Idle, Making
<1>6. CASE DraftIncomplete
  <2>1. UNCHANGED offset /\ at \in {"model", "draft"} /\ Filed
    BY <1>6 DEF DraftIncomplete, Reasons, Filed, Making
  <2>2. CASE Done
    BY <2>1, <2>2, DoneMoves
  <2>3. CASE ~Done
    <3>1. /\ hand' = Idle /\ at' = "idle" /\ next' = polled /\ excused' = excused \cup InHand
      BY <1>6, <2>3 DEF DraftIncomplete
    <3>2. next < next'
      BY <1>1, <2>1, <3>1 DEF Making
    <3>3. \A m \in DOMAIN said : m < next' /\ m \notin excused' => m < next
      BY <1>1, <3>1 DEF InHand
    <3> QED BY <1>1, <2>1, <3>1, <3>2, <3>3, QueueMoves DEF Idle, Making
  <2> QED BY <2>2, <2>3
<1>7. CASE FileNote \/ AskQuestion \/ NoOwners \/ DraftUnavailable \/ EditAsks \/ Raises
  <2>1. Done /\ UNCHANGED offset
    BY <1>7 DEF FileNote, AskQuestion, NoOwners, DraftUnavailable, EditAsks, Raises
  <2>2. CASE FileNote
    BY <2>1, <2>2, DoneMoves DEF Files
  <2>3. CASE AskQuestion \/ DraftUnavailable
    <3>1. Filed
      BY <2>3 DEF AskQuestion, DraftUnavailable, Reasons, Filed, Making
    <3> QED BY <2>1, <3>1, DoneMoves
  <2>4. CASE NoOwners
    <3>1. Filed \/ next \in excused'
      BY <1>2, <2>4 DEF NoOwners, Filed, Making
    <3> QED BY <2>1, <3>1, DoneMoves
  <2>5. CASE EditAsks
    <3>1. ~(next < polled)
      BY <1>1, <2>5 DEF EditAsks
    <3> QED BY <2>1, <3>1, DoneMoves
  <2>6. CASE Raises
    <3>1. next < polled => next \in excused'
      BY <1>1, <2>6 DEF Raises, InHand
    <3> QED BY <2>1, <3>1, DoneMoves
  <2> QED BY <1>7, <2>2, <2>3, <2>4, <2>5, <2>6
<1>8. CASE CardCommand
  <2>1. UNCHANGED <<offset, excused>> /\ said[next].text = None /\ at = "items" /\ ~Filed
    BY <1>8 DEF CardCommand, Item, Text, history, Filed, Making
  <2>2. CASE Done
    BY <2>1, <2>2, DoneMoves
  <2>3. CASE ~Done
    <3>1. /\ UNCHANGED next
          /\ \/ \E c : hand' = [Idle EXCEPT !.card = c, !.answer = 0]
             \/ \E c, p : hand' = [Idle EXCEPT !.card = c, !.pid = p, !.new = TRUE, !.then = "draft"]
      BY <1>8, <2>3 DEF CardCommand, Drafts
    <3>2. hand'.answer = 0
      <4>1. CASE \E c : hand' = [Idle EXCEPT !.card = c, !.answer = 0]
        BY <4>1 DEF Idle
      <4>2. CASE \E c, p : hand' = [Idle EXCEPT !.card = c, !.pid = p, !.new = TRUE, !.then = "draft"]
        BY <4>2 DEF Idle
      <4> QED BY <3>1, <4>1, <4>2
    <3> QED BY <2>1, <3>1, <3>2, StayMoves
  <2> QED BY <2>2, <2>3
<1>9. CASE Answers
  <2>1. UNCHANGED <<offset, next, excused>> /\ at = "items" /\ ~Filed
        /\ \/ at' = "classify" /\ hand' = hand
           \/ at' = "draft" /\ \E c : hand' = [Idle EXCEPT !.card = c, !.answer = next]
    BY <1>9 DEF Answers, Drafts, Item, chat, history, Filed, Making
  <2>2. next # 0
    BY <2>1 DEF IInv, QueueInv
  <2>3. CASE at' = "classify"
    BY <1>2, <2>1, <2>3, StayMoves DEF Filed, Making
  <2>4. CASE at' = "draft"
    <3>1. hand'.answer = next
      BY <2>1, <2>4 DEF Idle
    <3> QED BY <2>1, <2>2, <2>4, <3>1, StayMoves DEF Filed, Making
  <2> QED BY <2>1, <2>3, <2>4
<1>10. CASE FileObjective
  <2>1. UNCHANGED <<offset, next, excused>> /\ at' = "source" /\ Files /\ at \notin Making
        /\ \E c, p, then : hand' = [Idle EXCEPT !.card = c, !.pid = p, !.new = TRUE, !.then = then]
    BY <1>10 DEF FileObjective, Files, Classifies, Item, chat, history, Making
  <2>2. hand'.answer = 0
    BY <2>1 DEF Idle
  <2> QED BY <2>1, <2>2, StayMoves DEF Filed
<1>11. CASE FileLegacy \/ Amend
  <2>1. UNCHANGED <<offset, next, excused>> /\ at = "draft" /\ at' = "source"
        /\ (hand.answer # 0 => ~Filed)
    BY <1>11 DEF FileLegacy, Amend, chat, history, Filed
  <2>2. hand'.answer = hand.answer /\ (FileLegacy => hand'.then = "draft")
    <3>1. CASE FileLegacy
      <4>1. \E p : hand' = [hand EXCEPT !.pid = p, !.then = "draft"]
        BY <3>1 DEF FileLegacy
      <4> QED BY <1>2, <4>1
    <3>2. CASE Amend /\ ~FileLegacy
      <4>1. \E p : hand' = [hand EXCEPT !.pid = p, !.then = "model"]
        BY <3>2 DEF Amend
      <4> QED BY <1>2, <3>2, <4>1
    <3> QED BY <1>11, <3>1, <3>2
  <2>3. hand'.answer # 0 => at' \in Making /\ hand'.answer = next
    BY <1>2, <2>1, <2>2 DEF Making
  <2>4. CASE FileLegacy
    <3>1. Filed => Filed'
      BY <2>1, <2>2, <2>4 DEF Filed, Making
    <3>2. Filed' => Filed
      BY <2>1, <2>2, <2>4 DEF Filed, Making
    <3> QED BY <2>1, <2>3, <3>1, <3>2, StayMoves
  <2>5. CASE Amend
    <3>1. ~Filed /\ Files
      BY <2>1, <2>5 DEF Amend, Files
    <3> QED BY <2>1, <2>3, <3>1, StayMoves
  <2> QED BY <1>11, <2>4, <2>5
<1>12. CASE SetSource
  <2>1. UNCHANGED <<offset, next, excused, hand>> /\ at = "source"
        /\ at' = IF hand.new THEN "put" ELSE hand.then
    BY <1>12 DEF SetSource, chat, history
  <2>2. at' \in Making /\ (~hand.new => hand.then \in {"draft", "model"})
    BY <2>1 DEF IInv, PlaceInv, Making
  <2>3. Filed => Filed'
    BY <1>2, <2>1, <2>2 DEF Filed
  <2>4. Filed' => Filed
    BY <1>2, <2>1, <2>2 DEF Filed, Making
  <2> QED BY <1>2, <2>1, <2>2, <2>3, <2>4, StayMoves
<1>13. CASE PutCard \/ DraftStored
  <2>1. UNCHANGED <<offset, next, excused, hand>>
    BY <1>13 DEF PutCard, DraftStored, chat, history
  <2>2. Filed /\ Filed'
    BY <1>2, <1>13, <2>1 DEF PutCard, DraftStored, Reasons, IInv, PlaceInv, Filed, Making
  <2> QED BY <1>2, <2>1, <2>2, StayMoves DEF Filed
<1>14. CASE PartSent
  <2>1. UNCHANGED <<offset, excused>> /\ at = "show" /\ Filed
    BY <1>14 DEF PartSent, history, Filed, Making
  <2>2. CASE Done
    BY <2>1, <2>2, DoneMoves
  <2>3. CASE ~Done
    <3>1. UNCHANGED <<at, next>> /\ \E part : hand' = [hand EXCEPT !.part = part]
      BY <1>14, <2>3 DEF PartSent
    <3>2. hand'.answer = hand.answer
      BY <1>2, <3>1
    <3> QED BY <1>2, <2>1, <3>1, <3>2, StayMoves DEF Filed
  <2> QED BY <2>2, <2>3
<1>15. CASE (\E c \in DOMAIN cards : TapYes(c) \/ TapEdit(c) \/ TapDrop(c)) \/ Hourly
  <2>1. UNCHANGED <<offset, next, excused>> /\ at \in {"idle", "expire", "note"}
        /\ at' \in {"idle", "edit", "expire", "note"}
    BY <1>15 DEF TapYes, TapEdit, TapDrop, Hourly, ExpirePass, Expire, NoteExpired, chat, daemon,
         history
  <2>2. hand.answer = 0
    BY <1>2, <2>1 DEF Making
  <2>3. hand' = hand \/ hand' = Idle \/ \E c : hand' = [Idle EXCEPT !.card = c]
    BY <1>15 DEF TapYes, TapEdit, TapDrop, Hourly, ExpirePass, Expire, NoteExpired, daemon
  <2>4. hand'.answer = 0
    <3>1. CASE \E c : hand' = [Idle EXCEPT !.card = c]
      BY <3>1 DEF Idle
    <3> QED BY <2>2, <2>3, <3>1 DEF Idle
  <2> QED BY <2>1, <2>4, StayMoves DEF Filed, Making
<1> QED BY <1>3, <1>4, <1>5, <1>6, <1>7, <1>8, <1>9, <1>10, <1>11, <1>12, <1>13, <1>14, <1>15
       DEF Next, HandleText, Taps

\* What a step does to the proposals, the cards and what Matthew was told.
LEMMA Stores ==
    ASSUME IInv, ChainInv, [Next]_vars
    PROVE  /\ DOMAIN proposals \subseteq DOMAIN proposals'
           /\ \A p \in DOMAIN proposals : proposals'[p] = proposals[p]
           /\ DOMAIN cards \subseteq DOMAIN cards' /\ Notes \subseteq Notes'
           /\ excused \subseteq excused'
           /\ \/ UNCHANGED proposals
              \/ \E c \in DOMAIN cards : DOMAIN proposals' = DOMAIN proposals \cup {NoteOf(c)}
              \/ Files
<1>1. CASE FileNote \/ FileObjective \/ Amend \/ FileLegacy \/ NoteExpired
  <2>1. PICK p, body : File(p, body) /\ (~Files => \E c \in DOMAIN cards : p = NoteOf(c))
    <3>1. CASE FileNote \/ FileObjective \/ Amend
      BY <3>1 DEF FileNote, FileObjective, Amend, Files
    <3>2. CASE FileLegacy \/ NoteExpired
      <4>1. hand.card \in DOMAIN cards /\ \E body : File(NoteOf(hand.card), body)
        BY <3>2 DEF FileLegacy, NoteExpired, IInv, PlaceInv
      <4> QED BY <4>1
    <3> QED BY <1>1, <3>1, <3>2
  <2>2. /\ DOMAIN proposals' = DOMAIN proposals \cup {p}
        /\ \A q \in DOMAIN proposals : proposals'[q] = proposals[q]
    BY <2>1, FileKeeps
  <2>3. UNCHANGED <<cards, excused>>
    BY <1>1 DEF FileNote, FileObjective, Amend, FileLegacy, NoteExpired, store, history
  <2>4. Notes' = Notes
    BY <2>3 DEF Notes, NoteOf
  <2> QED BY <2>1, <2>2, <2>3, <2>4
<1>2. CASE ~(FileNote \/ FileObjective \/ Amend \/ FileLegacy \/ NoteExpired)
  <2>1. UNCHANGED proposals /\ excused \subseteq excused'
    BY <1>2 DEF Next, HandleText, Taps, Hourly, vars, history, Says, FirstStart, Poll, StoreOffset,
         CardCommand, Answers, SetSource, PutCard, AskQuestion, NoOwners, DraftUnavailable,
         DraftIncomplete, DraftStored, PartSent, TapYes, TapEdit, TapDrop, EditAsks, ExpirePass,
         Expire, Raises, Crash
  <2>2. DOMAIN cards \subseteq DOMAIN cards'
    BY <1>2 DEF Next, HandleText, Taps, Hourly, vars, store, Says, FirstStart, Poll, StoreOffset,
         CardCommand, Answers, SetSource, PutCard, AskQuestion, NoOwners, DraftUnavailable,
         DraftIncomplete, DraftStored, PartSent, TapYes, TapEdit, TapDrop, EditAsks, ExpirePass,
         Expire, Raises, Crash, SetStatus, Put
  <2>3. Notes \subseteq Notes'
    BY <2>2 DEF Notes, NoteOf
  <2> QED BY <2>1, <2>2, <2>3
<1> QED BY <1>1, <1>2

\* What is filed of the item in hand ends in it.
LEMMA FilesNext ==
    ASSUME IInv, ChainInv, UsedInv, Files
    PROVE  /\ next \in Nat /\ next < offset /\ ~Filed /\ UNCHANGED <<said, offset>>
           /\ \E p, body :
                /\ File(p, body)
                /\ Len(body) \in Nat /\ body[Len(body)] = next
                /\ Id(p) /\ next \in DOMAIN said
                /\ \/ p = TextOf(next) /\ body = <<next>>
                   \/ p[3] # <<>> /\ p[3][Len(p[3])] = said[next].text
<1>0. {offset, polled, next} \subseteq Nat /\ polled <= Len(said) + 1 /\ DOMAIN said = 1..Len(said)
      /\ Len(said) \in Nat
  BY Turns
<1>1. CASE FileNote \/ FileObjective
  <2>1. /\ UNCHANGED <<said, offset>> /\ at \in {"items", "classify"} /\ next < polled
        /\ File(TextOf(next), <<next>>)
    BY <1>1, Turns DEF FileNote, FileObjective, Classifies, Item, chat
  <2>2. next < offset /\ ~Filed /\ next # 0
    BY <2>1, Turns DEF Filed, Making, IInv, QueueInv
  <2>3. Id(TextOf(next))
    BY EmptySeq DEF Id, TextOf
  <2>4. next \in DOMAIN said
    BY <1>0, <2>1, <2>2
  <2> QED BY <1>0, <2>1, <2>2, <2>3, <2>4
<1>2. CASE Amend
  <2>1. PICK base, t : base = sources[hand.card] /\ t = said[hand.answer].text
    OBVIOUS
  <2>2. /\ File(AmendedBy(base, t), Append(proposals[base], next)) /\ UNCHANGED <<said, offset>>
        /\ base \in DOMAIN proposals /\ t \in Texts /\ next \in DOMAIN said
        /\ at = "draft" /\ hand.answer # 0 /\ t = said[next].text
    BY <1>2, <2>1 DEF Amend, IInv, BodyInv, ChainInv, AnswerInv, chat, UsedInv
  <2>3. next < offset /\ ~Filed
    BY <2>2, Turns DEF Filed, Making
  <2>4. PICK k, x : \E ts \in Seq(Texts) : base = <<k, x, ts>>
    BY <2>2 DEF ChainInv, TextInv, Id
  <2>5. PICK ts \in Seq(Texts) : base = <<k, x, ts>>
    BY <2>4
  <2>6. AmendedBy(base, t) = <<k, x, Append(ts, t)>> /\ Append(ts, t) \in Seq(Texts)
    BY <2>2, <2>5 DEF AmendedBy
  <2>7. Append(ts, t) # <<>> /\ Append(ts, t)[Len(Append(ts, t))] = t
    BY <2>2, AppendProperties
  <2>8. proposals[base] \in Seq(Nat)
    BY <2>2 DEF IInv, BodyInv, Bodies
  <2>9. /\ Len(Append(proposals[base], next)) \in Nat
        /\ Append(proposals[base], next)[Len(Append(proposals[base], next))] = next
    BY <1>0, <2>8, AppendProperties
  <2>10. Id(AmendedBy(base, t)) /\ AmendedBy(base, t)[3] = Append(ts, t)
    BY <2>6 DEF Id
  <2> QED BY <1>0, <2>2, <2>3, <2>7, <2>9, <2>10
<1> QED BY <1>1, <1>2 DEF Files

\* Every step keeps what is known of the ends.
LEMMA UsedStep == IInv /\ IInv' /\ ChainInv /\ UsedInv /\ [Next]_vars => UsedInv'
<1> SUFFICES ASSUME IInv, IInv', ChainInv, UsedInv, [Next]_vars PROVE UsedInv'
  OBVIOUS
<1>1. /\ offset <= offset' /\ (hand'.answer # 0 => at' \in Making /\ hand'.answer = next')
      /\ next < next' \/ next' = offset' \/ (next' = next /\ (Filed => Filed'))
  BY MoveStep DEF Moves
<1>2. {offset, next, offset', next'} \subseteq Nat
  BY DEF IInv, QueueInv
<1>3. \A p \in DOMAIN proposals : Last(p) \in Nat
  <2> SUFFICES ASSUME NEW p \in DOMAIN proposals PROVE Last(p) \in Nat
    OBVIOUS
  <2>1. proposals[p] \in Seq(Nat) /\ proposals[p] # <<>>
    BY DEF IInv, BodyInv, Bodies
  <2>2. Len(proposals[p]) \in 1..Len(proposals[p])
    BY <2>1, EmptySeq
  <2> QED BY <2>1, <2>2 DEF Last
<1>4. ASSUME NEW p \in DOMAIN proposals \ Notes, Last(p)' = Last(p)
      PROVE  Last(p)' < offset' /\ (Last(p)' < next' \/ (Last(p)' = next' /\ Filed'))
  BY <1>1, <1>2, <1>3, <1>4 DEF UsedInv
<1>5. CASE ~Files
  <2>1. \A p \in DOMAIN proposals' \ Notes' : p \in DOMAIN proposals \ Notes /\ Last(p)' = Last(p)
    BY <1>5, Stores DEF Last, Notes
  <2> QED BY <1>1, <1>4, <2>1 DEF UsedInv
<1>6. CASE Files
  <2>1. /\ next < offset /\ ~Filed
        /\ \E p, body : File(p, body) /\ Len(body) \in Nat /\ body[Len(body)] = next
    BY <1>6, FilesNext
  <2>2. PICK p, body : File(p, body) /\ Len(body) \in Nat /\ body[Len(body)] = next
    BY <2>1
  <2>3. /\ DOMAIN proposals' = DOMAIN proposals \cup {p}
        /\ \A q \in DOMAIN proposals : proposals'[q] = proposals[q]
        /\ p \notin DOMAIN proposals => proposals'[p] = body
    BY <2>2, FileKeeps
  <2>4. \A q \in DOMAIN proposals : Last(q)' = Last(q)
    BY <2>3 DEF Last
  <2>5. p \notin DOMAIN proposals => Last(p)' = next
    BY <2>2, <2>3 DEF Last
  <2>6. \A q \in DOMAIN proposals \ Notes : Last(q) < next
    BY <2>1 DEF UsedInv
  <2>7. next < next' \/ (next' = next /\ Filed')
    <3>1. CASE FileNote
      BY <1>2, <3>1, <2>1, Turns DEF FileNote, Done, Classifies, Item
    <3>2. CASE FileObjective
      <4>1. UNCHANGED next /\ at' = "source"
            /\ \E c, q, then : hand' = [Idle EXCEPT !.card = c, !.pid = q, !.new = TRUE, !.then = then]
        BY <3>2 DEF FileObjective, chat
      <4>2. hand'.answer = 0
        BY <4>1 DEF Idle
      <4> QED BY <4>1, <4>2 DEF Filed, Making
    <3>3. CASE Amend
      <4>1. UNCHANGED next /\ at' = "source" /\ \E q : hand' = [hand EXCEPT !.pid = q, !.then = "model"]
        BY <3>3 DEF Amend, chat
      <4>2. hand'.then = "model"
        BY <4>1 DEF IInv, HandInv
      <4> QED BY <4>1, <4>2 DEF Filed, Making
    <3> QED BY <1>6, <3>1, <3>2, <3>3 DEF Files
  <2>8. \A q \in DOMAIN proposals' \ Notes' :
            q \in DOMAIN proposals \ Notes \/ (q = p /\ q \notin DOMAIN proposals)
    BY <2>3, Stores
  <2>9. ASSUME NEW q \in DOMAIN proposals' \ Notes'
        PROVE  Last(q)' < offset' /\ (Last(q)' < next' \/ (Last(q)' = next' /\ Filed'))
    <3>1. CASE q \in DOMAIN proposals \ Notes
      BY <1>4, <2>4, <3>1
    <3>2. CASE q = p /\ q \notin DOMAIN proposals
      BY <1>1, <1>2, <2>1, <2>5, <2>7, <3>2
    <3> QED BY <2>8, <3>1, <3>2
  <2>10. ASSUME NEW q \in DOMAIN proposals' \ Notes', NEW r \in DOMAIN proposals' \ Notes',
                Last(q)' = Last(r)'
         PROVE  q = r
    <3>1. CASE q \in DOMAIN proposals \ Notes /\ r \in DOMAIN proposals \ Notes
      BY <2>4, <2>10, <3>1 DEF UsedInv
    <3>2. CASE q \notin DOMAIN proposals /\ r \in DOMAIN proposals \ Notes
      BY <1>2, <1>3, <2>4, <2>5, <2>6, <2>8, <2>10, <3>2
    <3>3. CASE r \notin DOMAIN proposals /\ q \in DOMAIN proposals \ Notes
      BY <1>2, <1>3, <2>4, <2>5, <2>6, <2>8, <2>10, <3>3
    <3> QED BY <2>8, <3>1, <3>2, <3>3
  <2> QED BY <1>1, <2>9, <2>10 DEF UsedInv
<1> QED BY <1>5, <1>6

\* Every step keeps what Matthew wrote.
LEMMA KeptStep == IInv /\ IInv' /\ ChainInv /\ UsedInv /\ KeptInv /\ [Next]_vars => KeptInv'
<1> SUFFICES ASSUME IInv, IInv', ChainInv, UsedInv, KeptInv, [Next]_vars PROVE KeptInv'
  OBVIOUS
<1>1. \A m \in DOMAIN said :
        said[m].text # None /\ m \notin excused' /\ (m < next' \/ (m = next' /\ Filed')) =>
            m < next \/ (m = next /\ (Filed \/ Files))
  BY MoveStep DEF Moves
<1>2. /\ DOMAIN proposals \subseteq DOMAIN proposals'
      /\ \A p \in DOMAIN proposals : proposals'[p] = proposals[p]
      /\ excused \subseteq excused'
  BY Stores
<1>3. /\ \A m \in DOMAIN said : said'[m] = said[m]
      /\ \A m \in DOMAIN said' \ DOMAIN said : ~(m < next' \/ (m = next' /\ Filed'))
  <2>1. CASE Says
    <3>1. PICK e : said' = Append(said, e)
      BY <2>1 DEF Says
    <3>2. DOMAIN said' = 1..(Len(said) + 1) /\ \A m \in DOMAIN said : said'[m] = said[m]
      BY <3>1, AppendAny DEF IInv, QueueInv
    <3>3. UNCHANGED <<next, at>> /\ at \in {"down", "idle"}
      BY <2>1 DEF Says, daemon
    <3>4. ~Filed'
      BY <3>3 DEF Filed, Making
    <3> QED BY <3>2, <3>3, <3>4, Turns
  <2>2. CASE ~Says
    <3>1. UNCHANGED said
      BY <2>2 DEF Next, HandleText, Taps, Hourly, vars, FirstStart, Poll, StoreOffset, CardCommand,
         Answers, FileNote, FileObjective, SetSource, PutCard, AskQuestion, NoOwners, FileLegacy, Amend,
         DraftUnavailable, DraftIncomplete, DraftStored, PartSent, TapYes, TapEdit, TapDrop,
         EditAsks, ExpirePass, Expire, NoteExpired, Raises, Crash, chat
    <3> QED BY <3>1
  <2> QED BY <2>1, <2>2
<1>4. ASSUME NEW p \in DOMAIN proposals', p[1] = "text", p[3] = <<>>
      PROVE  proposals'[p] = <<p[2]>>
  <2>1. CASE p \in DOMAIN proposals
    BY <1>2, <1>4, <2>1 DEF KeptInv
  <2>2. CASE p \notin DOMAIN proposals
    <3>1. Files
      <4>1. \A c : NoteOf(c)[1] = "card"
        BY DEF NoteOf
      <4> QED BY <1>4, <2>2, <4>1, Stores
    <3>2. PICK q, body : /\ File(q, body)
                         /\ \/ q = TextOf(next) /\ body = <<next>>
                            \/ q[3] # <<>>
      BY <3>1, FilesNext
    <3>3. p = q /\ proposals'[p] = body
      BY <2>2, <3>2, FileKeeps
    <3> QED BY <1>4, <3>2, <3>3 DEF TextOf
  <2> QED BY <2>1, <2>2
<1>5. ASSUME NEW m \in DOMAIN said, Kept(m) PROVE Kept(m)'
  BY <1>2, <1>3, <1>5 DEF Kept
<1>6. ASSUME NEW m, m = next, Files PROVE Kept(m)'
  <2>1. PICK p, body :
          /\ File(p, body)
          /\ \/ p = TextOf(next) /\ body = <<next>>
             \/ p[3] # <<>> /\ p[3][Len(p[3])] = said[next].text
    BY <1>6, FilesNext
  <2>2. p \in DOMAIN proposals' /\ UNCHANGED said
    BY <1>6, <2>1, FileKeeps, FilesNext
  <2>3. CASE p = TextOf(next)
    <3>1. proposals'[p] = <<m>>
      BY <1>4, <1>6, <2>2, <2>3 DEF TextOf
    <3>2. 1 \in DOMAIN proposals'[p] /\ proposals'[p][1] = m
      BY <3>1
    <3> QED BY <2>2, <3>2 DEF Kept
  <2>4. CASE p[3] # <<>> /\ p[3][Len(p[3])] = said[next].text
    BY <1>6, <2>2, <2>4 DEF Kept
  <2> QED BY <2>1, <2>3, <2>4
<1>7. ASSUME NEW m \in DOMAIN said', said'[m].text # None, m \notin excused',
             m < next' \/ (m = next' /\ Filed')
      PROVE  Kept(m)'
  <2>1. m \in DOMAIN said /\ said'[m] = said[m] /\ m \notin excused
    BY <1>2, <1>3, <1>7
  <2>2. m < next \/ (m = next /\ (Filed \/ Files))
    BY <1>1, <1>7, <2>1
  <2>3. CASE m < next \/ (m = next /\ Filed)
    <3>1. Kept(m)
      BY <1>7, <2>1, <2>3 DEF KeptInv
    <3> QED BY <1>5, <2>1, <3>1
  <2>4. CASE m = next /\ Files
    BY <1>6, <2>4
  <2> QED BY <2>2, <2>3, <2>4
<1> QED BY <1>4, <1>7 DEF KeptInv

\* All that is known of the messages holds always.
LEMMA MessagesInv == Spec => [](UsedInv /\ KeptInv)
<1>1. Init => UsedInv /\ KeptInv
  BY DEF Init, UsedInv, KeptInv, Idle
<1>2. Spec => [](IInv /\ ChainInv)
  BY InitInv, NextInv, ChainStep, PTL DEF Spec
<1> QED BY <1>1, <1>2, UsedStep, KeptStep, PTL DEF Spec

\* Whatever is polled again after a crash, and whichever question is open, no message is
\* taken twice: as an idea and as an answer (handle_text), or as the answer of two cards.
THEOREM MessagesAreUsedOnce == Spec => []UsedOnce
<1>1. UsedInv => UsedOnce
  <2> SUFFICES ASSUME UsedInv, NEW m \in DOMAIN said PROVE Cardinality(Ends(m) \ Notes) <= 1
    BY DEF UsedOnce
  <2>1. \A p, q \in Ends(m) \ Notes : p = q
    BY DEF UsedInv, Ends, Last
  <2>2. CASE Ends(m) \ Notes = {}
    BY <2>2, FS_EmptySet
  <2>3. CASE Ends(m) \ Notes # {}
    <3>1. PICK p : p \in Ends(m) \ Notes
      BY <2>3
    <3>2. Ends(m) \ Notes = {p}
      BY <2>1, <3>1
    <3>3. Cardinality({p}) = 1
      BY FS_Singleton
    <3> QED BY <3>2, <3>3
  <2> QED BY <2>2, <2>3
<1> QED BY <1>1, MessagesInv, PTL

\* Nothing Matthew wrote is lost without a word: when the turn of a text is over, a proposal
\* keeps it, or a fault took it or he was told (intake.py's _file_source and _amend come
\* before all else that is done with a text).
THEOREM WordsAreKept == Spec => []TextsAreKept
<1>1. KeptInv => TextsAreKept
  BY DEF KeptInv, TextsAreKept, Kept
<1> QED BY <1>1, MessagesInv, PTL

=============================================================================
