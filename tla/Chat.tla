-------------------------------- MODULE Chat --------------------------------
(***************************************************************************)
(* What Matthew writes to Metroplex and what becomes of it: Telegram's     *)
(* queue and the daemon's offset into it (cos/bot.py, cos/daemon.py), the  *)
(* one open question, the proposals that keep his words, and the source    *)
(* each card binds (cos/intake.py).                                        *)
(*                                                                         *)
(* A message is its position in the chat.  The text of a proposal (its     *)
(* body) is the sequence of the messages it was made of: the idea and its  *)
(* amendments, newest last.  A proposal's id is a hash of what it was made *)
(* from, so it is that: a message or an expired card, and the texts that   *)
(* amended it.  The id keeps the text and the body keeps the message: two  *)
(* messages that say the same give one id and two bodies.                  *)
(*                                                                         *)
(* Each command, each write to the store and each part of a card that is   *)
(* sent is one step, and the daemon may die between any two.  The model's  *)
(* answers, what Matthew does and the seven days of a card are choices.    *)
(* CardIntake follows a card from its Yes on; here a Yes grants at once.   *)
(***************************************************************************)
EXTENDS Naturals, Sequences, FiniteSets

CONSTANTS
    Texts,          \* what Matthew may say
    Parts,          \* the messages a rendered card is split into
    MaxMessages,    \* bound on Matthew's messages
    MaxFaults,      \* bound on crashes, failed calls and messages that are not delivered
    None

ASSUME PartsAssumption == Parts \in Nat \ {0}
ASSUME BoundsAssumption == {MaxMessages, MaxFaults} \subseteq Nat
ASSUME TextsAssumption == None \notin Texts

VARIABLES
    said,       \* said[m]: the text of message m, or the reference of a 'card <reference>'
    offset,     \* the store's bot_offset (0: never started)
    polled,     \* the offset the daemon polls from
    next,       \* the next message of its batch next..(polled - 1)
    proposals,  \* Teletraan's proposals: the body of each id
    cards,      \* the store's cards
    sources,    \* the store's card_source:<card>
    open,       \* the store's open_question
    at, hand,   \* where the daemon stands, and what it has in hand
    expiring,   \* the cards the hourly pass has still to expire
    asked,      \* the card Matthew was last asked about
    excused,    \* messages he was told about, or that a fault swallowed (a history)
    unnoted,    \* cards that expired in a pass and have no note yet (a history)
    faults

chat == <<said, offset, polled, next>>
store == <<cards, sources, open>>
daemon == <<at, hand, expiring>>
history == <<asked, excused, unnoted>>
vars == <<chat, proposals, store, daemon, history, faults>>

\* kept is the row's own copy of the source; source and body are what the card now drafted
\* binds; seen, yes and buttons are what Matthew sees of it in the chat.
NewCard(body) == [status |-> "drafting", kept |-> body, source |-> None, body |-> <<>>,
                  seen |-> 0, yes |-> FALSE, buttons |-> FALSE]

\* A card that was left in drafting before cards had sources.
Legacy == <<"idea", 0>>
Idle == [card |-> None, answer |-> 0, pid |-> None, new |-> FALSE, then |-> "idle", part |-> 0]

Init ==
    /\ said = <<>> /\ offset = 0 /\ polled = 0 /\ next = 0
    /\ proposals = [p \in {} |-> <<>>]
    /\ cards = [c \in {Legacy} |-> NewCard(<<0>>)]
    /\ sources = [c \in {} |-> <<>>]
    /\ open = Legacy /\ asked = Legacy
    /\ at = "down" /\ hand = Idle /\ expiring = {}
    /\ excused = {} /\ unnoted = {} /\ faults = 0

\* The ids of the idea or note of message m, of the note of card c (or of the proposal made
\* for a legacy card), and of proposal p amended by the text t.
TextOf(m) == <<"text", m, <<>>>>
NoteOf(c) == <<"card", c, <<>>>>
AmendedBy(p, t) == [p EXCEPT ![3] = Append(@, t)]

Fault == faults < MaxFaults /\ faults' = faults + 1

-----------------------------------------------------------------------------
(* The writes *)

\* proposal.file and the look at what is stored: the first filing under an id wins.
File(p, body) ==
    proposals' = [q \in DOMAIN proposals \cup {p} |->
                    IF q \in DOMAIN proposals THEN proposals[q] ELSE body]

\* put_card: the row is made or written again, but for its own copy of the source.
Put(c, row) ==
    cards' = [d \in DOMAIN cards \cup {c} |->
                IF d # c THEN cards[d]
                ELSE IF c \in DOMAIN cards THEN [row EXCEPT !.kept = cards[c].kept] ELSE row]

SetStatus(c, s) == cards' = [cards EXCEPT ![c].status = s]

\* The item in hand is done, and the next one of the batch comes.
Done ==
    /\ hand' = Idle
    /\ IF next < polled
       THEN next' = next + 1 /\ at' = IF next + 1 = polled THEN "idle" ELSE "items"
       ELSE UNCHANGED next /\ at' = "idle"

-----------------------------------------------------------------------------
(* The chat *)

\* Matthew says something.  Only what is there at the next poll matters.
Says ==
    /\ at \in {"down", "idle"}
    /\ Len(said) < MaxMessages
    /\ \/ \E t \in Texts : said' = Append(said, [text |-> t, card |-> None])
       \/ \E r \in DOMAIN cards \cup DOMAIN proposals :
            said' = Append(said, [text |-> None, card |-> r])
    /\ UNCHANGED <<offset, polled, next, proposals, store, daemon, history, faults>>

\* The first start skips what was sent before it.
FirstStart ==
    /\ at = "down"
    /\ polled' = Len(said) + 1 /\ next' = polled' /\ offset' = polled'
    /\ excused' = excused \cup DOMAIN said
    /\ at' = "idle"
    /\ UNCHANGED <<said, proposals, store, hand, expiring, asked, unnoted, faults>>

\* getUpdates: the batch of all that is new.
Poll ==
    /\ at = "idle" /\ polled <= Len(said)
    /\ polled' = Len(said) + 1
    /\ at' = "got"
    /\ UNCHANGED <<said, offset, next, proposals, store, hand, expiring, history, faults>>

\* Mutant: the offset is not stored before the batch is handled.
OffsetNotStored ==
    /\ at = "got"
    /\ at' = "items"
    /\ UNCHANGED <<chat, proposals, store, hand, expiring, history, faults>>

\* The offset is stored before the batch is handled.  If that raises, the loop goes on with
\* the new offset and without the batch.
StoreOffset ==
    /\ at = "got"
    /\ \/ /\ offset' = polled /\ at' = "items"
          /\ UNCHANGED <<next, excused, faults>>
       \/ /\ Fault
          /\ next' = polled /\ excused' = excused \cup next..(polled - 1) /\ at' = "idle"
          /\ UNCHANGED offset
    /\ UNCHANGED <<said, polled, proposals, store, hand, expiring, asked, unnoted>>

-----------------------------------------------------------------------------
(* Intake.handle_text *)

InHand == next..(polled - 1)
Item == at = "items" /\ next < polled
Text == said[next].text
Drafts(c, answer) == at' = "draft" /\ hand' = [Idle EXCEPT !.card = c, !.answer = answer]

\* 'card <reference>': the card itself, or the one made from the proposal.
Referred ==
    LET r == said[next].card IN IF r \in DOMAIN cards THEN r ELSE <<"made", r>>

CardCommand ==
    /\ Item /\ Text = None
    /\ LET c == Referred IN
        \/ /\ c \in DOMAIN cards /\ cards[c].status = "drafting"
           /\ Drafts(c, 0)
           /\ UNCHANGED next
        \/ /\ c \in DOMAIN cards /\ cards[c].status # "drafting"
           /\ Done
        \/ /\ c \notin DOMAIN cards
           /\ hand' = [Idle EXCEPT !.card = c, !.pid = said[next].card, !.new = TRUE,
                                   !.then = "draft"]
           /\ at' = "source"
           /\ UNCHANGED next
    /\ UNCHANGED <<said, offset, polled, proposals, store, expiring, history, faults>>

\* Mutant: a text for a card that is no longer drafted is dropped.
AnswersOrDrops ==
    /\ Item /\ Text # None /\ open # None
    /\ open' = None
    /\ \/ cards[open].status = "drafting" /\ Drafts(open, next) /\ UNCHANGED next
       \/ cards[open].status # "drafting" /\ Done
    /\ UNCHANGED <<said, offset, polled, proposals, cards, sources, expiring, history, faults>>

\* Mutant: the text amends the card asked about, whatever became of it.
AnswersAnyCard ==
    /\ Item /\ Text # None /\ open # None
    /\ open' = None
    /\ Drafts(open, next)
    /\ UNCHANGED <<chat, proposals, cards, sources, expiring, history, faults>>

\* The open question is closed, and the text answers it if its card still waits.
Answers ==
    /\ Item /\ Text # None /\ open # None
    /\ open' = None
    /\ \/ cards[open].status = "drafting" /\ Drafts(open, next)
       \/ cards[open].status # "drafting" /\ at' = "classify" /\ UNCHANGED hand
    /\ UNCHANGED <<chat, proposals, cards, sources, expiring, history, faults>>

Classifies == at = "classify" \/ (Item /\ Text # None /\ open = None)

\* Labelled a note, or not labelled at all.
FileNote ==
    /\ Classifies
    /\ File(TextOf(next), <<next>>)
    /\ Done
    /\ UNCHANGED <<said, offset, polled, store, expiring, history, faults>>

\* An objective, perhaps with a question: filed before anything else.
FileObjective ==
    /\ Classifies
    /\ File(TextOf(next), <<next>>)
    /\ \E then \in {"ask", "draft"} :
        hand' = [Idle EXCEPT !.card = <<"idea", next>>, !.pid = TextOf(next), !.new = TRUE,
                             !.then = then]
    /\ at' = "source"
    /\ UNCHANGED <<chat, store, expiring, history, faults>>

SetSource ==
    /\ at = "source"
    /\ sources' = [c \in DOMAIN sources \cup {hand.card} |->
                     IF c = hand.card THEN hand.pid ELSE sources[c]]
    /\ at' = IF hand.new THEN "put" ELSE hand.then
    /\ UNCHANGED <<chat, proposals, cards, open, hand, expiring, history, faults>>

PutCard ==
    /\ at = "put"
    /\ Put(hand.card, NewCard(proposals[hand.pid]))
    /\ at' = hand.then
    /\ UNCHANGED <<chat, proposals, sources, open, hand, expiring, history, faults>>

\* The question is opened and then sent, which may fail.
AskQuestion ==
    /\ at = "ask"
    /\ open' = hand.card
    /\ \/ asked' = hand.card /\ UNCHANGED faults
       \/ Fault /\ UNCHANGED asked
    /\ Done
    /\ UNCHANGED <<said, offset, polled, proposals, cards, sources, expiring, excused, unnoted>>

-----------------------------------------------------------------------------
(* Intake._draft, _source and _amend *)

\* Nobody can own the project: the card is dropped, and an answer with it.
NoOwners ==
    /\ at = "draft"
    /\ SetStatus(hand.card, "dropped")
    /\ excused' = excused \cup (IF hand.answer = 0 THEN {} ELSE {hand.answer})
    /\ Done
    /\ UNCHANGED <<said, offset, polled, proposals, sources, open, expiring, asked, unnoted,
                   faults>>

\* A card from before source binding is filed first.
FileLegacy ==
    /\ at = "draft" /\ hand.card \notin DOMAIN sources
    /\ File(NoteOf(hand.card), cards[hand.card].kept)
    /\ hand' = [hand EXCEPT !.pid = NoteOf(hand.card), !.then = "draft"]
    /\ at' = "source"
    /\ UNCHANGED <<chat, store, expiring, history, faults>>

\* Mutant: the row's copy of the source is amended, not the card's present source.
AmendsKept ==
    /\ at = "draft" /\ hand.answer # 0 /\ hand.card \in DOMAIN sources
    /\ LET pid == AmendedBy(sources[hand.card], said[hand.answer].text) IN
        /\ File(pid, Append(cards[hand.card].kept, hand.answer))
        /\ hand' = [hand EXCEPT !.pid = pid, !.then = "model"]
    /\ at' = "source"
    /\ UNCHANGED <<chat, store, expiring, history, faults>>

\* The answer becomes source too: the current one with the answer at its end.
Amend ==
    /\ at = "draft" /\ hand.answer # 0 /\ hand.card \in DOMAIN sources
    /\ LET base == sources[hand.card]
           pid == AmendedBy(base, said[hand.answer].text) IN
        /\ File(pid, Append(proposals[base], hand.answer))
        /\ hand' = [hand EXCEPT !.pid = pid, !.then = "model"]
    /\ at' = "source"
    /\ UNCHANGED <<chat, store, expiring, history, faults>>

Reasons ==
    /\ at = "model" \/ (at = "draft" /\ hand.answer = 0)
    /\ hand.card \in DOMAIN sources

DraftUnavailable ==
    /\ Reasons
    /\ Done
    /\ UNCHANGED <<said, offset, polled, proposals, store, expiring, history, faults>>

\* The problems are sent first, and then the question is opened: a crash between the two
\* leaves what Matthew was asked without a question.
DraftIncomplete ==
    /\ Reasons
    /\ asked' = hand.card
    /\ \/ open' = hand.card /\ Done /\ UNCHANGED <<excused, faults>>
       \/ /\ Fault
          /\ hand' = Idle /\ at' = "idle" /\ next' = polled /\ excused' = excused \cup InHand
          /\ UNCHANGED open
    /\ UNCHANGED <<said, offset, polled, proposals, cards, sources, expiring, unnoted>>

\* Mutant: the card binds the text that was sent.
BoundAsSent(pid) ==
    IF hand.answer = 0 THEN proposals[pid]
    ELSE Append(proposals[[pid EXCEPT ![3] = SubSeq(@, 1, Len(@) - 1)]], hand.answer)
\* The card binds the stored text.
Bound(pid) == proposals[pid]

\* A complete draft: put_card writes all but the row's copy of the source.
DraftStored ==
    /\ Reasons
    /\ LET pid == sources[hand.card] IN
        Put(hand.card, [NewCard(<<>>) EXCEPT
                            !.status = "awaiting_yes", !.source = pid, !.body = Bound(pid),
                            !.buttons = cards[hand.card].buttons])
    /\ at' = "show"
    /\ UNCHANGED <<chat, proposals, sources, open, hand, expiring, history, faults>>

\* Mutant: a part that fails is skipped.
PartOrSkipped ==
    /\ at = "show"
    /\ LET part == hand.part + 1 IN
        /\ \/ cards' = [cards EXCEPT ![hand.card].seen = @ + 1,
                                     ![hand.card].yes = (part = Parts),
                                     ![hand.card].buttons = @ \/ part = Parts]
              /\ UNCHANGED faults
           \/ Fault /\ UNCHANGED cards
        /\ IF part = Parts THEN Done
           ELSE hand' = [hand EXCEPT !.part = part] /\ UNCHANGED <<at, next>>
    /\ UNCHANGED <<said, offset, polled, proposals, sources, open, expiring, history>>

\* Bot.send: the parts in order, the buttons on the last.  One that fails ends it.
PartSent ==
    /\ at = "show"
    /\ LET part == hand.part + 1 IN
        \/ /\ cards' = [cards EXCEPT ![hand.card].seen = @ + 1,
                                     ![hand.card].yes = (part = Parts),
                                     ![hand.card].buttons = @ \/ part = Parts]
           /\ IF part = Parts THEN Done
              ELSE hand' = [hand EXCEPT !.part = part] /\ UNCHANGED <<at, next>>
           /\ UNCHANGED faults
        \/ Fault /\ Done /\ UNCHANGED cards
    /\ UNCHANGED <<said, offset, polled, proposals, sources, open, expiring, history>>

-----------------------------------------------------------------------------
(* Buttons *)

\* The Yes of the card now shown: granted, or too late, and then expired without a note.  The
\* whole grant is in CardIntake.
TapYes(c) ==
    /\ at = "idle"
    /\ cards[c].status = "awaiting_yes" /\ cards[c].yes
    /\ \E s \in {"granted", "expired"} : SetStatus(c, s)
    /\ UNCHANGED <<chat, proposals, sources, open, daemon, history, faults>>

TapEdit(c) ==
    /\ at = "idle"
    /\ cards[c].status = "awaiting_yes" /\ cards[c].buttons
    /\ SetStatus(c, "drafting")
    /\ at' = "edit" /\ hand' = [Idle EXCEPT !.card = c]
    /\ UNCHANGED <<chat, proposals, sources, open, expiring, history, faults>>

\* Mutant: Edit leaves a question that is open.
KeepsOpen ==
    /\ at = "edit"
    /\ open' = IF open = None THEN hand.card ELSE open
    /\ asked' = hand.card
    /\ Done
    /\ UNCHANGED <<said, offset, polled, proposals, cards, sources, expiring, excused, unnoted,
                   faults>>

\* Then the question is opened, in the place of any other, and Matthew is asked.
EditAsks ==
    /\ at = "edit"
    /\ open' = hand.card
    /\ asked' = hand.card
    /\ Done
    /\ UNCHANGED <<said, offset, polled, proposals, cards, sources, expiring, excused, unnoted,
                   faults>>

TapDrop(c) ==
    /\ at = "idle"
    /\ cards[c].status \in {"drafting", "awaiting_yes"} /\ cards[c].buttons
    /\ SetStatus(c, "dropped")
    /\ UNCHANGED <<chat, proposals, sources, open, daemon, history, faults>>

-----------------------------------------------------------------------------
(* Intake.expire_cards *)

Awaiting == {c \in DOMAIN cards : cards[c].status = "awaiting_yes"}

ExpirePass ==
    /\ at = "idle"
    /\ expiring' \in SUBSET Awaiting \ {{}}
    /\ at' = "expire"
    /\ UNCHANGED <<chat, proposals, store, hand, history, faults>>

\* Mutant: all of them expire before the first note is filed.
ExpireAll(c) ==
    /\ at = "expire" /\ c \in expiring
    /\ cards' = [d \in DOMAIN cards |-> IF d \in expiring THEN [cards[d] EXCEPT !.status = "expired"]
                                        ELSE cards[d]]
    /\ unnoted' = unnoted \cup {d \in expiring : cards[d].status # "expired"}
    /\ hand' = [Idle EXCEPT !.card = c] /\ at' = "note"
    /\ UNCHANGED <<chat, proposals, sources, open, expiring, asked, excused, faults>>

\* First the status, then the note.
Expire(c) ==
    /\ at = "expire" /\ c \in expiring
    /\ SetStatus(c, "expired")
    /\ unnoted' = unnoted \cup {c}
    /\ hand' = [Idle EXCEPT !.card = c] /\ at' = "note"
    /\ UNCHANGED <<chat, proposals, sources, open, expiring, asked, excused, faults>>

\* The note is the row's copy of the source.
NoteExpired ==
    /\ at = "note"
    /\ File(NoteOf(hand.card), cards[hand.card].kept)
    /\ unnoted' = unnoted \ {hand.card}
    /\ expiring' = expiring \ {hand.card}
    /\ hand' = Idle
    /\ at' = IF expiring = {hand.card} THEN "idle" ELSE "expire"
    /\ UNCHANGED <<chat, store, asked, excused, faults>>

-----------------------------------------------------------------------------
(* Faults *)

\* A call raises while an item is handled: Matthew is told, and the next item comes.
Raises ==
    /\ at \in {"items", "classify", "source", "put", "ask", "draft", "model", "edit"}
    /\ Fault
    /\ excused' = excused \cup ({next} \cap InHand)
    /\ Done
    /\ UNCHANGED <<said, offset, polled, proposals, store, expiring, asked, unnoted>>

\* The process dies, or the hourly pass raises: it starts again from what is stored.
Crash ==
    /\ at \notin {"down", "idle"}
    /\ Fault
    /\ excused' = excused \cup {m \in InHand : m < offset}
    /\ polled' = offset /\ next' = offset
    /\ hand' = Idle /\ expiring' = {} /\ at' = "idle"
    /\ UNCHANGED <<said, offset, proposals, store, asked, unnoted>>

-----------------------------------------------------------------------------

HandleText ==
    \/ CardCommand \/ Answers \/ FileNote \/ FileObjective \/ SetSource \/ PutCard \/ AskQuestion
    \/ NoOwners \/ FileLegacy \/ Amend
    \/ DraftUnavailable \/ DraftIncomplete \/ DraftStored \/ PartSent

Taps == (\E c \in DOMAIN cards : TapYes(c) \/ TapEdit(c) \/ TapDrop(c)) \/ EditAsks

Hourly == ExpirePass \/ (\E c \in expiring : Expire(c)) \/ NoteExpired

Next ==
    \/ Says \/ FirstStart \/ Poll \/ StoreOffset
    \/ HandleText \/ Taps \/ Hourly
    \/ Raises \/ Crash

Spec == Init /\ [][Next]_vars

-----------------------------------------------------------------------------
(* Properties *)

\* The source a card binds is the proposal as Teletraan has it, whatever was sent to it
\* and however often: else project.create refuses the card Matthew approves (F7).
SourceIsStored ==
    \A c \in DOMAIN cards :
        cards[c].status \in {"awaiting_yes", "granted"} =>
            /\ cards[c].source \in DOMAIN proposals
            /\ cards[c].body = proposals[cards[c].source]

\* A card's source only grows: it changes to one that holds all of the old text with one
\* message after it, so no amendment is lost by a later one.
AmendmentsAccumulate ==
    [][\A c \in DOMAIN sources :
        sources'[c] # sources[c] =>
            \E m \in DOMAIN said :
                proposals'[sources'[c]] = Append(proposals[sources[c]], m)]_vars

\* No message is taken twice: not as an idea and as an answer, nor as the answer of two
\* cards, although polling, storing the offset and handling are three steps.
Ends(m) == {p \in DOMAIN proposals : proposals[p][Len(proposals[p])] = m}
Notes == {NoteOf(c) : c \in DOMAIN cards}
UsedOnce == \A m \in DOMAIN said : Cardinality(Ends(m) \ Notes) <= 1

\* Without a fault, and unless Matthew is told, every text he wrote is kept in a proposal.
TextsAreKept ==
    \A m \in DOMAIN said \ (excused \cup InHand) :
        m < next /\ said[m].text # None =>
            \E p \in DOMAIN proposals :
                \/ \E i \in DOMAIN proposals[p] : proposals[p][i] = m
                \/ p[3] # <<>> /\ p[3][Len(p[3])] = said[m].text

\* While nothing fails, a text that is taken as an answer is for the card Matthew was last
\* asked about, although every Edit and every question share one slot.
AnswersGoToAsked == at = "draft" /\ hand.answer # 0 /\ faults = 0 => hand.card = asked

\* Each fault costs at most one card that an hourly pass expires its note.
ExpiredIsNoted == Cardinality(unnoted \ (IF at = "note" THEN {hand.card} ELSE {})) <= faults

\* "expired cards revert to inert proposals": every card that has expired is a note, at least
\* while nothing fails.
ExpiredBecomesNote ==
    at = "idle" /\ faults = 0 =>
        \A c \in DOMAIN cards : cards[c].status = "expired" => NoteOf(c) \in DOMAIN proposals

\* Nothing is granted of which Matthew was not shown every part.
GrantedWasSeen == \A c \in DOMAIN cards : cards[c].status = "granted" => cards[c].seen = Parts

-----------------------------------------------------------------------------
(* What this promises: see module CardLife *)

States == [drafting |-> "drafting", awaiting_yes |-> "offered", granted |-> "granted",
           dropped |-> "closed", expired |-> "closed"]

\* What Matthew sees of a card: of one that is not on offer, nothing.
Seen(row) ==
    LET offered == row.status \in {"awaiting_yes", "granted"} IN
    [state |-> States[row.status],
     offer |-> IF offered THEN row.body ELSE <<>>,
     shown |-> IF offered THEN row.seen ELSE 0]

L == INSTANCE CardLife WITH
        Messages <- 0..MaxMessages,
        First <- {Legacy},
        text <- [c \in DOMAIN sources |-> proposals[sources[c]]],
        card <- [c \in DOMAIN cards |-> Seen(cards[c])]

\* Whatever fails, is sent twice or is tapped late, a card's text only grows, what Matthew
\* grants is all he has said of it so far, and a card that is granted or closed stays as
\* it is (handle_text, _amend, _draft, edit, drop, expire_cards).
CardsLive == L!Spec

=============================================================================
