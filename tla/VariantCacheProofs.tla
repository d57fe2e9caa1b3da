------------------------- MODULE VariantCacheProofs -------------------------
(***************************************************************************)
(* The safety of VariantCache, and that it implements ListMirror, for any  *)
(* things, fields, values and scopes, numbered and named.                  *)
(***************************************************************************)
EXTENDS VariantCache, FiniteSetTheorems, TLAPS

-----------------------------------------------------------------------------
\* The inductive invariant, part by part.

\* A thing is only ever listed under its own scope, and numbers are given to
\* what the cache holds, no number twice and none above the counter.
KeysInv ==
  /\ \A u \in DOMAIN entries : entries[u].Scope = ScopeOf[u]
  /\ \A u \in DOMAIN wireKeys : wireKeys[u] <= nextKey
  /\ \A u, w \in DOMAIN wireKeys : wireKeys[u] = wireKeys[w] => u = w

\* Outside a round there is neither anything said nor anything changed; within
\* one, what is said is of the round's scope and nothing is under way.
RoundInv ==
  /\ ~inRound => DOMAIN said = {} /\ DOMAIN changed = {}
  /\ inRound => sent = NoMsg /\ (fresh <=> DOMAIN listed = {})
  /\ \A u \in DOMAIN said : ScopeOf[u] = scope
  /\ inRound => \A u \in DOMAIN entries :
                  ScopeOf[u] = scope => (entries[u].bSeen <=> u \in DOMAIN said)

\* An entry holds the row that was listed, overwritten by what has been said,
\* and what is changed is exactly where the two differ.
EntriesInv ==
  /\ DOMAIN entries = DOMAIN listed \cup DOMAIN said
  /\ \A u \in DOMAIN entries : entries[u].Fields = Merge(At(listed, u), At(said, u))
ChangedInv ==
  /\ DOMAIN changed \subseteq DOMAIN said
  /\ \A u \in DOMAIN said : \A f \in Fields :
       At(changed, u)[f] = IF said[u][f] = At(listed, u)[f] THEN Unset ELSE said[u][f]
  /\ \A u \in DOMAIN changed : \E f \in Fields : changed[u][f] # Unset

\* What has travelled has a number, and nothing else has.
Shown == {u \in DOMAIN listed : listed[u] # Blank}
NumberedInv == DOMAIN wireKeys = IF Named THEN {} ELSE Shown

\* The reader's copy once it has applied what is under way.
Base == IF sent.fresh THEN Nothing ELSE Without(copy, sent.removed)
Put(k) == IF k \notin DOMAIN sent.changed THEN Base[k]
          ELSE IF k \notin DOMAIN Base THEN sent.changed[k]
          ELSE [Base[k] EXCEPT !.row = Merge(@, sent.changed[k].row)]
After == IF sent = NoMsg THEN copy
         ELSE [k \in DOMAIN Base \cup DOMAIN sent.changed |-> Put(k)]

\* It is the list, each row under its thing's key; only a reader that lost its
\* connection and has not heard from the new cache is exempt, and then the cache
\* has nothing listed.
ReaderInv ==
  /\ inSync \/ sent # NoMsg =>
       /\ DOMAIN After = {WireKey(wireKeys, u) : u \in Shown}
       /\ \A u \in Shown : After[WireKey(wireKeys, u)] = [who |-> u, row |-> listed[u]]
  /\ ~inSync /\ sent = NoMsg => DOMAIN listed = {}
  /\ ~inSync /\ sent # NoMsg => sent.fresh
  /\ inSync /\ sent # NoMsg /\ sent.fresh => DOMAIN copy = {}
  /\ \A j, k \in DOMAIN copy : copy[j].who = copy[k].who => j = k

\* The promises about a message while it is under way.
RemovedInv == ~Named => RemovedIsKnown
MessageInv == RemovedInv /\ OnlyChangesTravel /\ KeysAgree

Inv == /\ TypeOK /\ KeysInv /\ RoundInv /\ EntriesInv /\ ChangedInv /\ NumberedInv
       /\ ReaderInv /\ MessageInv
-----------------------------------------------------------------------------
\* Rows.

LEMMA BlankRow == Blank \in Row
  BY DEF Blank, Row

LEMMA AtRow ==
  ASSUME NEW g, NEW x, g \in [DOMAIN g -> Row]
  PROVE  At(g, x) \in Row
  BY BlankRow DEF At

LEMMA MergeRow ==
  ASSUME NEW a \in Row, NEW b \in Row
  PROVE  Merge(a, b) \in Row /\ Merge(a, Blank) = a /\ Merge(Blank, b) = b
  BY DEF Merge, Row, Blank

\* A record of the reader's copy whose row is merged keeps whose it is.
LEMMA WireRowMerge ==
  ASSUME NEW r \in WireRow, NEW b \in Row
  PROVE  [r EXCEPT !.row = Merge(@, b)] = [who |-> r.who, row |-> Merge(r.row, b)]
  BY DEF WireRow

\* What a message is made of.
LEMMA SentType ==
  ASSUME TypeOK, sent # NoMsg
  PROVE  /\ sent.fresh \in BOOLEAN /\ sent.removed \subseteq Keys
         /\ DOMAIN sent.changed \subseteq Keys
         /\ sent.changed \in [DOMAIN sent.changed -> WireRow]
<1>1. PICK K \in SUBSET Keys : sent \in Msg(K)
  BY DEF TypeOK
<1>2. sent.fresh \in BOOLEAN /\ sent.changed \in [K -> WireRow] /\ sent.removed \in SUBSET Keys
  BY <1>1 DEF Msg
<1> QED BY <1>2

\* Every thing the reader is told of has one key, and no other thing has it.
LEMMA KeyInjective ==
  ASSUME TypeOK, KeysInv, NumberedInv,
         NEW u \in Shown, NEW w \in Shown, WireKey(wireKeys, u) = WireKey(wireKeys, w)
  PROVE  u = w
  BY VariantCacheAssumption DEF WireKey, KeysInv, NumberedInv

\* A step that leaves the reader's side alone keeps what is promised about it.
LEMMA ReaderKept ==
  ASSUME Inv, UNCHANGED <<wireKeys, sent, copy, listed, inSync>>
  PROVE  NumberedInv' /\ ReaderInv' /\ MessageInv'
<1>1. Shown' = Shown /\ After' = After
  BY DEF Shown, After, Base, Put
<1>2. NumberedInv'
  BY <1>1 DEF Inv, NumberedInv
<1>3. ReaderInv'
  BY <1>1 DEF Inv, ReaderInv
<1>4. MessageInv'
  BY DEF Inv, MessageInv, RemovedInv, RemovedIsKnown, OnlyChangesTravel, KeysAgree
<1> QED BY <1>2, <1>3, <1>4

LEMMA InitInv == Init => Inv
<1> SUFFICES ASSUME Init PROVE Inv
  OBVIOUS
<1> USE VariantCacheAssumption
<1>0. /\ DOMAIN entries = {} /\ DOMAIN wireKeys = {} /\ DOMAIN changed = {}
      /\ DOMAIN copy = {} /\ DOMAIN said = {} /\ DOMAIN listed = {}
  BY DEF Init, Nothing
<1>1. TypeOK
  <2>1. nextKey \in 0..MaxHandle
    BY DEF Init
  <2>2. /\ entries \in [DOMAIN entries -> SEntry] /\ wireKeys \in [DOMAIN wireKeys -> 1..MaxHandle]
        /\ changed \in [DOMAIN changed -> Row] /\ copy \in [DOMAIN copy -> WireRow]
        /\ said \in [DOMAIN said -> Row] /\ listed \in [DOMAIN listed -> Row]
    BY <1>0 DEF Init, Nothing
  <2> QED BY <1>0, <2>1, <2>2 DEF Init, TypeOK
<1>2. KeysInv /\ RoundInv /\ EntriesInv /\ ChangedInv
  BY <1>0 DEF Init, KeysInv, RoundInv, EntriesInv, ChangedInv
<1>3. NumberedInv
  BY <1>0 DEF NumberedInv, Shown
<1>4. ReaderInv
  BY <1>0 DEF Init, ReaderInv, Shown, After
<1>5. MessageInv
  BY <1>0 DEF Init, MessageInv, RemovedInv, RemovedIsKnown, OnlyChangesTravel, KeysAgree
<1> QED BY <1>1, <1>2, <1>3, <1>4, <1>5 DEF Inv
-----------------------------------------------------------------------------
\* The steps of a round.

LEMMA BeginRoundInv ==
  ASSUME Inv, NEW sc \in Scopes, BeginRound(sc)
  PROVE  Inv'
<1> USE VariantCacheAssumption DEF Inv
<1>0. /\ DOMAIN said' = {} /\ DOMAIN changed' = {} /\ DOMAIN said = {} /\ DOMAIN changed = {}
      /\ said' = said /\ changed' = changed
  BY DEF BeginRound, RoundInv, Nothing, TypeOK
<1>1. /\ DOMAIN entries' = DOMAIN entries
      /\ \A u \in DOMAIN entries :
           /\ entries'[u] \in SEntry
           /\ entries'[u].Fields = entries[u].Fields /\ entries'[u].Scope = entries[u].Scope
           /\ entries[u].Scope = sc => entries'[u].bSeen = FALSE
  <2>1. DOMAIN entries' = DOMAIN entries
    BY DEF BeginRound
  <2>2. ASSUME NEW u \in DOMAIN entries
        PROVE  /\ entries'[u] \in SEntry
               /\ entries'[u].Fields = entries[u].Fields
               /\ entries'[u].Scope = entries[u].Scope
               /\ entries[u].Scope = sc => entries'[u].bSeen = FALSE
    <3>1. entries[u] \in SEntry
      BY DEF TypeOK
    <3>2. entries'[u] = IF entries[u].Scope = sc THEN [entries[u] EXCEPT !.bSeen = FALSE]
                        ELSE entries[u]
      BY DEF BeginRound
    <3> QED BY <3>1, <3>2 DEF SEntry
  <2> QED BY <2>1, <2>2
<1>2. TypeOK'
  <2>1. entries' \in [DOMAIN entries' -> SEntry]
    BY <1>1 DEF BeginRound
  <2>2. fresh' \in BOOLEAN
    BY DEF BeginRound, IsEmpty
  <2> QED BY <1>0, <1>1, <2>1, <2>2 DEF TypeOK, BeginRound
<1>3. KeysInv'
  BY <1>1 DEF KeysInv, BeginRound
<1>4. RoundInv'
  BY <1>0, <1>1 DEF RoundInv, BeginRound, KeysInv, IsEmpty, EntriesInv
<1>5. EntriesInv' /\ ChangedInv'
  BY <1>0, <1>1 DEF EntriesInv, ChangedInv, BeginRound
<1>6. NumberedInv' /\ ReaderInv' /\ MessageInv'
  BY ReaderKept DEF BeginRound
<1> QED BY <1>2, <1>3, <1>4, <1>5, <1>6

\* The row an entry stands for, whether there is an entry or not.
LEMMA KnownIs ==
  ASSUME TypeOK, EntriesInv, NEW u
  PROVE  Known(u) \in Row /\ Known(u) = Merge(At(listed, u), At(said, u))
<1>1. CASE u \in DOMAIN entries
  BY <1>1 DEF Known, EntriesInv, TypeOK, SEntry
<1>2. CASE u \notin DOMAIN entries
  <2>1. At(listed, u) = Blank /\ At(said, u) = Blank
    BY <1>2 DEF At, EntriesInv
  <2> QED BY <1>2, <2>1, BlankRow, MergeRow DEF Known
<1> QED BY <1>1, <1>2

\* m_Entries[Id] marked as mentioned, with the row that listing and saying give.
LEMMA MentionInv ==
  ASSUME Inv, NEW u \in Uids, NEW row \in Row, Mention(u, row),
         inRound, ScopeOf[u] = scope, UNCHANGED <<scope, inRound, fresh, listed, sent>>,
         UNCHANGED <<wireKeys, nextKey, copy, inSync>>,
         NEW srow \in Row,
         said' = [w \in DOMAIN said \cup {u} |-> IF w = u THEN srow ELSE said[w]],
         row = Merge(At(listed, u), srow)
  PROVE  /\ DOMAIN entries' \subseteq Uids /\ entries' \in [DOMAIN entries' -> SEntry]
         /\ DOMAIN said' \subseteq Uids /\ said' \in [DOMAIN said' -> Row]
         /\ KeysInv' /\ RoundInv' /\ EntriesInv'
<1> USE VariantCacheAssumption DEF Inv
<1>0. /\ DOMAIN entries' = DOMAIN entries \cup {u}
      /\ entries'[u] = [Fields |-> row, bSeen |-> TRUE, Scope |-> scope]
      /\ \A w \in DOMAIN entries : w # u => entries'[w] = entries[w]
  BY DEF Mention
<1>1. DOMAIN entries' \subseteq Uids /\ entries' \in [DOMAIN entries' -> SEntry]
  <2>1. entries'[u] \in SEntry
    BY <1>0 DEF TypeOK, SEntry
  <2>2. \A w \in DOMAIN entries' : entries'[w] \in SEntry
    BY <1>0, <2>1 DEF TypeOK
  <2> QED BY <1>0, <2>2 DEF Mention, TypeOK
<1>2. DOMAIN said' \subseteq Uids /\ said' \in [DOMAIN said' -> Row]
  BY DEF TypeOK
<1>3. KeysInv'
  BY <1>0 DEF KeysInv
<1>4. RoundInv'
  BY <1>0 DEF RoundInv
<1>5. EntriesInv'
  <2>1. DOMAIN entries' = DOMAIN listed' \cup DOMAIN said'
    BY <1>0 DEF EntriesInv
  <2>2. ASSUME NEW w \in DOMAIN entries'
        PROVE  entries'[w].Fields = Merge(At(listed', w), At(said', w))
    <3>1. CASE w = u
      BY <1>0, <3>1 DEF At
    <3>2. CASE w # u
      <4>1. At(said', w) = At(said, w)
        BY <3>2 DEF At
      <4> QED BY <1>0, <2>2, <3>2, <4>1 DEF EntriesInv
    <3> QED BY <3>1, <3>2
  <2> QED BY <2>1, <2>2 DEF EntriesInv
<1> QED BY <1>1, <1>2, <1>3, <1>4, <1>5

\* A round in which nothing else is said of a thing changes nothing of it.
LEMMA ChangedElsewhere ==
  ASSUME Inv, NEW u \in Uids, NEW w \in DOMAIN said', w # u, UNCHANGED listed,
         DOMAIN said' = DOMAIN said \cup {u},
         \A x \in DOMAIN said : x # u => said'[x] = said[x],
         At(changed', w) = At(changed, w)
  PROVE  \A f \in Fields :
           At(changed', w)[f] = IF said'[w][f] = At(listed', w)[f] THEN Unset ELSE said'[w][f]
  BY DEF Inv, ChangedInv

LEMMA KeepInv ==
  ASSUME Inv, NEW u \in Uids, Keep(u)
  PROVE  Inv'
<1> USE VariantCacheAssumption DEF Inv
<1>0. u \notin DOMAIN said /\ u \notin DOMAIN changed /\ At(said, u) = Blank
  BY DEF Keep, ChangedInv, At
<1>1. Known(u) \in Row /\ Known(u) = Merge(At(listed, u), Blank)
  BY <1>0, KnownIs
<1>2. said' = [w \in DOMAIN said \cup {u} |-> IF w = u THEN Blank ELSE said[w]]
  BY <1>0 DEF Keep, At
<1>3. /\ DOMAIN entries' \subseteq Uids /\ entries' \in [DOMAIN entries' -> SEntry]
      /\ DOMAIN said' \subseteq Uids /\ said' \in [DOMAIN said' -> Row]
      /\ KeysInv' /\ RoundInv' /\ EntriesInv'
  BY <1>1, <1>2, MentionInv, BlankRow DEF Keep
<1>4. TypeOK'
  BY <1>3 DEF Keep, TypeOK
<1>5. ChangedInv'
  <2>1. changed' = changed /\ listed' = listed
    BY DEF Keep
  <2>2. ASSUME NEW w \in DOMAIN said', NEW f \in Fields
        PROVE  At(changed', w)[f] = IF said'[w][f] = At(listed', w)[f] THEN Unset
                                    ELSE said'[w][f]
    <3>1. CASE w = u
      BY <1>0, <1>2, <2>1, <3>1 DEF At, Blank
    <3>2. CASE w # u
      BY <1>2, <2>1, <3>2, ChangedElsewhere
    <3> QED BY <3>1, <3>2
  <2>3. DOMAIN changed' \subseteq DOMAIN said'
    BY <1>2, <2>1 DEF ChangedInv
  <2> QED BY <2>1, <2>2, <2>3 DEF ChangedInv
<1>6. NumberedInv' /\ ReaderInv' /\ MessageInv'
  BY ReaderKept DEF Keep
<1> QED BY <1>3, <1>4, <1>5, <1>6

LEMMA WriteInv ==
  ASSUME Inv, NEW u \in Uids, NEW f \in Fields, NEW v \in Values, Write(u, f, v)
  PROVE  Inv'
<1> DEFINE old  == At(said, u)
           srow == [old EXCEPT ![f] = v]
           row  == [Known(u) EXCEPT ![f] = v]
           crow == [At(changed, u) EXCEPT ![f] = v]
<1> USE VariantCacheAssumption DEF Inv
<1>0. /\ Known(u) \in Row /\ Known(u) = Merge(At(listed, u), old)
      /\ old \in Row /\ At(listed, u) \in Row /\ At(changed, u) \in Row /\ old[f] = Unset
  BY KnownIs, AtRow DEF Write, TypeOK
<1>1. srow \in Row /\ row \in Row /\ crow \in Row
  BY <1>0 DEF Row
<1>2. row = Merge(At(listed, u), srow) /\ Known(u)[f] = At(listed, u)[f]
  BY <1>0 DEF Merge, Row
<1>3. Mention(u, row)
  BY <1>0 DEF Write, Differs, Row
<1>4. said' = [w \in DOMAIN said \cup {u} |-> IF w = u THEN srow ELSE said[w]]
  BY DEF Write
<1>5. /\ DOMAIN entries' \subseteq Uids /\ entries' \in [DOMAIN entries' -> SEntry]
      /\ DOMAIN said' \subseteq Uids /\ said' \in [DOMAIN said' -> Row]
      /\ KeysInv' /\ RoundInv' /\ EntriesInv'
  <2> HIDE DEF old, srow, row
  <2> QED BY <1>1, <1>2, <1>3, <1>4, MentionInv DEF Write
<1>6. /\ At(changed', u) = IF At(listed, u)[f] # v THEN crow ELSE At(changed, u)
      /\ \A w : w # u => At(changed', w) = At(changed, w)
      /\ DOMAIN changed' \subseteq Uids /\ changed' \in [DOMAIN changed' -> Row]
      /\ DOMAIN changed' \subseteq DOMAIN changed \cup {u}
      /\ u \in DOMAIN changed' /\ At(listed, u)[f] # v => changed'[u] = crow
      /\ At(listed, u)[f] = v => changed' = changed
      /\ \A w \in DOMAIN changed : w # u => changed'[w] = changed[w]
  <2>1. CASE At(listed, u)[f] # v
    <3>1. changed' = [w \in DOMAIN changed \cup {u} |-> IF w = u THEN crow ELSE changed[w]]
      BY <1>2, <2>1 DEF Write, Differs
    <3> HIDE DEF crow
    <3> QED BY <1>1, <2>1, <3>1 DEF At, TypeOK
  <2>2. CASE At(listed, u)[f] = v
    BY <1>2, <2>2 DEF Write, Differs, TypeOK
  <2> QED BY <2>1, <2>2
<1>7. TypeOK'
  BY <1>5, <1>6 DEF Write, TypeOK
<1>8. At(changed, u)[f] = Unset
  BY <1>0 DEF At, ChangedInv, Blank
<1>9. ChangedInv'
  <2>1. listed' = listed
    BY DEF Write
  <2>2. ASSUME NEW w \in DOMAIN said', NEW g \in Fields
        PROVE  At(changed', w)[g] = IF said'[w][g] = At(listed', w)[g] THEN Unset
                                    ELSE said'[w][g]
    <3>1. CASE w # u
      <4> HIDE DEF srow, crow, Inv
      <4>1. DOMAIN said' = DOMAIN said \cup {u}
        BY <1>4
      <4>2. \A x \in DOMAIN said : x # u => said'[x] = said[x]
        BY <1>4
      <4>3. At(changed', w) = At(changed, w)
        BY <1>6, <3>1
      <4>4. w \in DOMAIN said /\ said'[w] = said[w]
        BY <3>1, <4>1, <4>2
      <4>5. At(changed, w)[g] = IF said[w][g] = At(listed, w)[g] THEN Unset ELSE said[w][g]
        BY <4>4 DEF Inv, ChangedInv
      <4> QED BY <2>1, <4>3, <4>4, <4>5
    <3>2. CASE w = u
      <4>1. said'[u] = srow
        BY <1>4
      <4>2. CASE g = f
        BY <1>0, <1>6, <1>8, <2>1, <3>2, <4>1, <4>2 DEF Row
      <4>3. CASE g # f
        <5>1. said'[u][g] = old[g] /\ At(changed', u)[g] = At(changed, u)[g]
          BY <1>0, <1>6, <4>1, <4>3 DEF Row
        <5>2. At(changed, u)[g] = IF old[g] = At(listed, u)[g] THEN Unset ELSE old[g]
          BY DEF At, ChangedInv, Blank
        <5> QED BY <2>1, <3>2, <5>1, <5>2
      <4> QED BY <4>2, <4>3
    <3> QED BY <3>1, <3>2
  <2>3. DOMAIN changed' \subseteq DOMAIN said'
    BY <1>4, <1>6 DEF ChangedInv
  <2>4. ASSUME NEW w \in DOMAIN changed'
        PROVE  \E g \in Fields : changed'[w][g] # Unset
    <3>1. CASE w = u /\ At(listed, u)[f] # v
      BY <1>0, <1>6, <3>1 DEF Row
    <3>2. CASE At(listed, u)[f] = v
      BY <1>6, <2>4, <3>2 DEF ChangedInv
    <3>3. CASE w # u
      BY <1>6, <2>4, <3>3 DEF ChangedInv
    <3> QED BY <3>1, <3>2, <3>3
  <2> QED BY <2>2, <2>3, <2>4 DEF ChangedInv
<1>10. NumberedInv' /\ ReaderInv' /\ MessageInv'
  BY ReaderKept DEF Write
<1> QED BY <1>5, <1>7, <1>9, <1>10
-----------------------------------------------------------------------------
\* The steps between rounds.

LEMMA ClearInv == Inv /\ Clear => Inv'
<1> SUFFICES ASSUME Inv, Clear PROVE Inv'
  OBVIOUS
<1> USE VariantCacheAssumption DEF Inv
<1>0. /\ DOMAIN entries' = {} /\ DOMAIN wireKeys' = {} /\ DOMAIN changed' = {}
      /\ DOMAIN copy' = {} /\ DOMAIN listed' = {} /\ DOMAIN said = {} /\ said' = said
      /\ sent = NoMsg /\ sent' = NoMsg /\ ~inRound /\ ~inRound'
  BY DEF Clear, Nothing, RoundInv
<1>1. TypeOK'
  <2>1. /\ entries' \in [DOMAIN entries' -> SEntry]
        /\ wireKeys' \in [DOMAIN wireKeys' -> 1..MaxHandle]
        /\ changed' \in [DOMAIN changed' -> Row] /\ copy' \in [DOMAIN copy' -> WireRow]
        /\ listed' \in [DOMAIN listed' -> Row]
    BY <1>0 DEF Clear, Nothing
  <2> QED BY <1>0, <2>1 DEF Clear, Counter, TypeOK
<1>2. KeysInv' /\ RoundInv' /\ EntriesInv' /\ ChangedInv'
  BY <1>0 DEF KeysInv, RoundInv, EntriesInv, ChangedInv
<1>3. Shown' = {} /\ After' = copy'
  BY <1>0 DEF Shown, After
<1>4. NumberedInv' /\ ReaderInv'
  BY <1>0, <1>3 DEF NumberedInv, ReaderInv
<1>5. MessageInv'
  BY <1>0 DEF MessageInv, RemovedInv, RemovedIsKnown, OnlyChangesTravel, KeysAgree
<1> QED BY <1>1, <1>2, <1>4, <1>5

LEMMA NewSessionInv == Inv /\ NewSession => Inv'
<1> SUFFICES ASSUME Inv, NewSession PROVE Inv'
  OBVIOUS
<1> USE VariantCacheAssumption DEF Inv
<1>0. /\ DOMAIN entries' = {} /\ DOMAIN wireKeys' = {} /\ DOMAIN changed' = {}
      /\ DOMAIN listed' = {} /\ DOMAIN said' = {} /\ copy' = copy
      /\ sent' = NoMsg /\ ~inRound' /\ ~inSync'
  BY DEF NewSession, Nothing
<1>1. TypeOK'
  <2>1. /\ entries' \in [DOMAIN entries' -> SEntry]
        /\ wireKeys' \in [DOMAIN wireKeys' -> 1..MaxHandle]
        /\ changed' \in [DOMAIN changed' -> Row] /\ said' \in [DOMAIN said' -> Row]
        /\ listed' \in [DOMAIN listed' -> Row]
    BY <1>0 DEF NewSession, Nothing
  <2>2. nextKey' \in 0..MaxHandle
    BY DEF NewSession
  <2> QED BY <1>0, <2>1, <2>2 DEF NewSession, TypeOK
<1>2. KeysInv' /\ RoundInv' /\ EntriesInv' /\ ChangedInv'
  BY <1>0 DEF KeysInv, RoundInv, EntriesInv, ChangedInv
<1>3. Shown' = {}
  BY <1>0 DEF Shown
<1>4. NumberedInv' /\ ReaderInv'
  BY <1>0, <1>3 DEF NumberedInv, ReaderInv
<1>5. MessageInv'
  BY <1>0 DEF MessageInv, RemovedInv, RemovedIsKnown, OnlyChangesTravel, KeysAgree
<1> QED BY <1>1, <1>2, <1>4, <1>5

\* A reader that is in step and has nothing to come holds the list.
LEMMA CopyHolds ==
  ASSUME Inv, inSync, sent = NoMsg
  PROVE  /\ DOMAIN copy = {WireKey(wireKeys, u) : u \in Shown}
         /\ \A u \in Shown : copy[WireKey(wireKeys, u)] = [who |-> u, row |-> listed[u]]
         /\ \A k \in DOMAIN copy :
              /\ copy[k].who \in Shown /\ k = WireKey(wireKeys, copy[k].who)
              /\ copy[k].row = listed[copy[k].who]
<1>1. /\ DOMAIN copy = {WireKey(wireKeys, u) : u \in Shown}
      /\ \A u \in Shown : copy[WireKey(wireKeys, u)] = [who |-> u, row |-> listed[u]]
  BY DEF Inv, ReaderInv, After
<1>2. ASSUME NEW k \in DOMAIN copy
      PROVE  /\ copy[k].who \in Shown /\ k = WireKey(wireKeys, copy[k].who)
             /\ copy[k].row = listed[copy[k].who]
  <2>1. PICK u \in Shown : k = WireKey(wireKeys, u)
    BY <1>1
  <2>2. copy[k] = [who |-> u, row |-> listed[u]]
    BY <1>1, <2>1
  <2>3. copy[k].who = u /\ copy[k].row = listed[u]
    BY <2>2
  <2> QED BY <2>1, <2>3
<1> QED BY <1>1, <1>2

LEMMA ClearScopeInv ==
  ASSUME Inv, NEW sc \in Scopes, ClearScope(sc)
  PROVE  Inv'
<1> DEFINE part == {u \in DOMAIN entries : ScopeOf[u] = sc}
<1> USE VariantCacheAssumption DEF Inv
<1>0. /\ sent = NoMsg /\ sent' = NoMsg /\ ~inRound /\ ~inRound'
      /\ DOMAIN said = {} /\ said' = said /\ DOMAIN changed' = {}
      /\ inSync' = inSync /\ nextKey' = nextKey
  BY DEF ClearScope, RoundInv, Nothing
<1>1. entries' = Without(entries, part) /\ wireKeys' = Without(wireKeys, part)
  BY DEF ClearScope, KeysInv
<1>2. /\ DOMAIN entries' = DOMAIN entries \ part
      /\ \A u \in DOMAIN entries' : entries'[u] = entries[u]
      /\ DOMAIN wireKeys' = DOMAIN wireKeys \ part
      /\ \A u \in DOMAIN wireKeys' : wireKeys'[u] = wireKeys[u]
      /\ DOMAIN listed' = {u \in DOMAIN listed : ScopeOf[u] # sc}
      /\ \A u \in DOMAIN listed' : listed'[u] = listed[u]
      /\ DOMAIN copy' = {k \in DOMAIN copy : ScopeOf[copy[k].who] # sc}
      /\ \A k \in DOMAIN copy' : copy'[k] = copy[k]
  BY <1>1 DEF ClearScope, Without
<1>3. TypeOK'
  <2>1. entries' \in [DOMAIN entries' -> SEntry]
    BY <1>1, <1>2 DEF Without, TypeOK
  <2>2. wireKeys' \in [DOMAIN wireKeys' -> 1..MaxHandle]
    BY <1>1, <1>2 DEF Without, TypeOK
  <2>3. listed' \in [DOMAIN listed' -> Row]
    BY <1>2 DEF ClearScope, Without, TypeOK
  <2>4. copy' \in [DOMAIN copy' -> WireRow]
    BY <1>2 DEF ClearScope, Without, TypeOK
  <2>5. changed' \in [DOMAIN changed' -> Row]
    BY <1>0 DEF ClearScope, Nothing
  <2> HIDE DEF part
  <2> QED BY <1>0, <1>2, <2>1, <2>2, <2>3, <2>4, <2>5 DEF ClearScope, TypeOK
<1>4. KeysInv'
  BY <1>0, <1>2 DEF KeysInv
<1>5. RoundInv' /\ ChangedInv'
  BY <1>0 DEF RoundInv, ChangedInv
<1>6. EntriesInv'
  <2>1. DOMAIN entries' = DOMAIN listed' \cup DOMAIN said'
    BY <1>0, <1>2 DEF EntriesInv
  <2>2. \A u \in DOMAIN entries' : At(listed', u) = At(listed, u) /\ At(said', u) = At(said, u)
    BY <1>0, <1>2 DEF At
  <2> QED BY <1>0, <1>2, <2>1, <2>2 DEF EntriesInv
<1>7. Shown' = {u \in Shown : ScopeOf[u] # sc}
  BY <1>2 DEF Shown
<1>8. NumberedInv'
  BY <1>0, <1>2, <1>7 DEF NumberedInv, EntriesInv, Shown
<1>9. \A u \in Shown' : WireKey(wireKeys', u) = WireKey(wireKeys, u)
  BY <1>2, <1>7, <1>8 DEF WireKey, NumberedInv
<1>10. ReaderInv'
  <2>1. After' = copy'
    BY <1>0 DEF After
  <2>2. ASSUME inSync'
        PROVE  /\ DOMAIN copy' = {WireKey(wireKeys', u) : u \in Shown'}
               /\ \A u \in Shown' :
                    copy'[WireKey(wireKeys', u)] = [who |-> u, row |-> listed'[u]]
    <3>1. /\ DOMAIN copy = {WireKey(wireKeys, u) : u \in Shown}
          /\ \A u \in Shown : copy[WireKey(wireKeys, u)] = [who |-> u, row |-> listed[u]]
      BY <1>0, <2>2, CopyHolds
    <3>2. DOMAIN copy' = {WireKey(wireKeys, u) : u \in Shown'}
      <4>1. ASSUME NEW u \in Shown PROVE copy[WireKey(wireKeys, u)].who = u
        <5>1. copy[WireKey(wireKeys, u)] = [who |-> u, row |-> listed[u]]
          BY <3>1
        <5> QED BY <5>1
      <4>2. \A u \in Shown : WireKey(wireKeys, u) \in DOMAIN copy
        BY <3>1
      <4>3. \A k \in DOMAIN copy : copy[k].who \in Shown /\ k = WireKey(wireKeys, copy[k].who)
        BY <1>0, <2>2, CopyHolds
      <4> QED BY <1>2, <1>7, <4>1, <4>2, <4>3
    <3>3. ASSUME NEW u \in Shown'
          PROVE  copy'[WireKey(wireKeys', u)] = [who |-> u, row |-> listed'[u]]
      <4>1. u \in DOMAIN listed' /\ u \in Shown
        BY <1>7 DEF Shown
      <4> QED BY <1>2, <1>9, <3>1, <3>2, <4>1
    <3> QED BY <1>9, <3>2, <3>3
  <2>3. ~inSync => DOMAIN listed' = {}
    BY <1>0, <1>2 DEF ReaderInv
  <2>4. \A j, k \in DOMAIN copy' : copy'[j].who = copy'[k].who => j = k
    BY <1>2 DEF ReaderInv
  <2> QED BY <1>0, <2>1, <2>2, <2>3, <2>4 DEF ReaderInv
<1>11. MessageInv'
  <2>1. KeysAgree'
    <3> SUFFICES ASSUME inSync', NEW u \in DOMAIN wireKeys', NEW k \in DOMAIN copy',
                        wireKeys'[u] = k
                 PROVE  copy'[k].who = u
      BY DEF KeysAgree
    <3> QED BY <1>0, <1>2 DEF MessageInv, KeysAgree
  <2> QED BY <1>0, <2>1 DEF MessageInv, RemovedInv, RemovedIsKnown, OnlyChangesTravel
<1> QED BY <1>3, <1>4, <1>5, <1>6, <1>8, <1>10, <1>11

\* After is in the shape of a copy.
LEMMA AfterType ==
  ASSUME TypeOK
  PROVE  DOMAIN After \subseteq Keys /\ After \in [DOMAIN After -> WireRow]
<1>1. CASE sent = NoMsg
  BY <1>1 DEF After, TypeOK
<1>2. CASE sent # NoMsg
  <2>1. /\ sent.fresh \in BOOLEAN /\ sent.removed \subseteq Keys
        /\ DOMAIN sent.changed \subseteq Keys
        /\ sent.changed \in [DOMAIN sent.changed -> WireRow]
    BY <1>2, SentType
  <2>2. DOMAIN Base \subseteq Keys /\ \A k \in DOMAIN Base : Base[k] \in WireRow
    BY DEF Base, Nothing, Without, TypeOK
  <2>3. ASSUME NEW k \in DOMAIN Base \cup DOMAIN sent.changed
        PROVE  Put(k) \in WireRow
    <3>1. CASE k \in DOMAIN Base /\ k \in DOMAIN sent.changed
      <4>1. Base[k] \in WireRow /\ sent.changed[k] \in WireRow
        BY <2>1, <2>2, <3>1
      <4>2. sent.changed[k].row \in Row /\ Base[k].row \in Row /\ Base[k].who \in Uids
        BY <4>1 DEF WireRow
      <4>3. Put(k) = [who |-> Base[k].who, row |-> Merge(Base[k].row, sent.changed[k].row)]
        BY <3>1, <4>1, <4>2, WireRowMerge DEF Put
      <4> QED BY <4>2, <4>3, MergeRow DEF WireRow
    <3>2. CASE k \notin DOMAIN Base \/ k \notin DOMAIN sent.changed
      BY <2>1, <2>2, <2>3, <3>2 DEF Put
    <3> QED BY <3>1, <3>2
  <2> QED BY <1>2, <2>1, <2>2, <2>3 DEF After
<1> QED BY <1>1, <1>2

LEMMA ApplyIsAfter ==
  ASSUME Apply
  PROVE  copy' = After
  BY DEF Apply, After, Base, Put

LEMMA ApplyInv == Inv /\ Apply => Inv'
<1> SUFFICES ASSUME Inv, Apply PROVE Inv'
  OBVIOUS
<1> USE VariantCacheAssumption DEF Inv
<1>0. /\ sent # NoMsg /\ sent' = NoMsg /\ inSync' /\ copy' = After
      /\ UNCHANGED <<entries, wireKeys, nextKey, changed, scope, inRound, fresh, said, listed>>
  BY ApplyIsAfter DEF Apply, cache
<1>1. ~inRound
  BY <1>0 DEF RoundInv
<1>2. TypeOK'
  BY <1>0, AfterType DEF TypeOK
<1>3. KeysInv' /\ RoundInv' /\ EntriesInv' /\ ChangedInv'
  BY <1>0, <1>1 DEF KeysInv, RoundInv, EntriesInv, ChangedInv
<1>4. Shown' = Shown /\ After' = copy'
  BY <1>0 DEF Shown, After
<1>5. NumberedInv'
  BY <1>0, <1>4 DEF NumberedInv
<1>6. /\ DOMAIN copy' = {WireKey(wireKeys, u) : u \in Shown}
      /\ \A u \in Shown : copy'[WireKey(wireKeys, u)] = [who |-> u, row |-> listed[u]]
  BY <1>0 DEF ReaderInv
<1>7. ReaderInv'
  <2>1. ASSUME NEW j \in DOMAIN copy', NEW k \in DOMAIN copy', copy'[j].who = copy'[k].who
        PROVE  j = k
    <3>1. PICK u \in Shown : j = WireKey(wireKeys, u)
      BY <1>6
    <3>2. PICK w \in Shown : k = WireKey(wireKeys, w)
      BY <1>6
    <3>3. copy'[j] = [who |-> u, row |-> listed[u]] /\ copy'[k] = [who |-> w, row |-> listed[w]]
      BY <1>6, <3>1, <3>2
    <3>4. u = w
      BY <2>1, <3>3
    <3> QED BY <3>1, <3>2, <3>4
  <2>2. After' = copy' /\ Shown' = Shown /\ wireKeys' = wireKeys /\ listed' = listed
    BY <1>0, <1>4
  <2> QED BY <1>0, <1>6, <2>1, <2>2 DEF ReaderInv
<1>8. KeysAgree'
  <2> SUFFICES ASSUME NEW u \in DOMAIN wireKeys, NEW k \in DOMAIN copy', wireKeys[u] = k
               PROVE  copy'[k].who = u
    BY <1>0 DEF KeysAgree
  <2>1. ~Named /\ u \in Shown
    BY DEF NumberedInv
  <2>2. WireKey(wireKeys, u) = k
    BY <2>1 DEF WireKey
  <2>3. copy'[k] = [who |-> u, row |-> listed[u]]
    BY <1>6, <2>1, <2>2
  <2> QED BY <2>3
<1>9. MessageInv'
  BY <1>0, <1>8 DEF MessageInv, RemovedInv, RemovedIsKnown, OnlyChangesTravel
<1> QED BY <1>2, <1>3, <1>5, <1>7, <1>9
-----------------------------------------------------------------------------
\* The end of a round.

\* What a round leaves out is of its scope and was not said.
LEMMA GoneIs ==
  ASSUME Inv, inRound
  PROVE  /\ Gone = {u \in DOMAIN entries : ScopeOf[u] = scope /\ u \notin DOMAIN said}
         /\ DOMAIN changed \cap Gone = {}
         /\ DOMAIN changed \subseteq Uids /\ DOMAIN changed \subseteq DOMAIN said
  BY DEF Inv, Gone, KeysInv, RoundInv, ChangedInv, TypeOK

\* As many numbers as new entries, none twice: all of the next numbers are used,
\* so the last of them is a key.
LEMMA AllNumbersUsed ==
  ASSUME NEW S, IsFiniteSet(S), S # {}, NEW n \in Nat,
         NEW g \in [S -> (n + 1)..(n + Cardinality(S))],
         \A u, w \in S : u # w => g[u] # g[w]
  PROVE  Cardinality(S) \in Nat /\ \E u \in S : g[u] = n + Cardinality(S)
<1> DEFINE c == Cardinality(S)
           T == (n + 1)..(n + c)
<1>1. c \in Nat
  BY FS_CardinalityType
<1>2. c # 0
  BY FS_EmptySet
<1>3. IsFiniteSet(T) /\ Cardinality(T) = c
  <2>1. n + 1 \in Int /\ n + c \in Int
    BY <1>1
  <2>2. IsFiniteSet(T) /\ Cardinality(T) = IF n + 1 > n + c THEN 0 ELSE (n + c) - (n + 1) + 1
    <3> HIDE DEF c
    <3> QED BY <2>1, FS_Interval
  <2> HIDE DEF c, T
  <2> QED BY <1>1, <1>2, <2>2
<1>4. g \in Injection(S, T)
  BY DEF Injection, IsInjective
<1>5. g \in Surjection(S, T)
  <2> HIDE DEF T
  <2> QED BY <1>3, <1>4, FS_Injection
<1>6. n + c \in T
  <2> HIDE DEF c
  <2> QED BY <1>1, <1>2
<1>7. \E u \in S : g[u] = n + c
  <2> HIDE DEF T, c
  <2> QED BY <1>5, <1>6 DEF Surjection
<1> QED BY <1>1, <1>7

\* The keys a round ends with, and the message it ends in.
LEMMA FinishKeys ==
  ASSUME Inv, FinishRound
  PROVE  /\ wireKeys' \in [DOMAIN wireKeys' -> 1..MaxHandle]
         /\ DOMAIN wireKeys' = IF Named THEN {} ELSE (DOMAIN wireKeys \ Gone) \cup DOMAIN changed
         /\ \A u \in DOMAIN wireKeys' : u \in DOMAIN wireKeys => wireKeys'[u] = wireKeys[u]
         /\ \A u \in DOMAIN wireKeys' : u \notin DOMAIN wireKeys => wireKeys'[u] > nextKey
         /\ \A u \in DOMAIN wireKeys' : wireKeys'[u] <= nextKey'
         /\ \A u, w \in DOMAIN wireKeys' : wireKeys'[u] = wireKeys'[w] => u = w
         /\ nextKey' \in 0..MaxHandle
<1> DEFINE new == {u \in DOMAIN changed : u \notin DOMAIN wireKeys}
           n == nextKey
<1> USE VariantCacheAssumption DEF Inv
<1>0. /\ wireKeys \in [DOMAIN wireKeys -> 1..MaxHandle] /\ n \in 0..MaxHandle
      /\ \A u \in DOMAIN wireKeys : wireKeys[u] <= n
      /\ \A u, w \in DOMAIN wireKeys : wireKeys[u] = wireKeys[w] => u = w
      /\ DOMAIN changed \cap Gone = {} /\ DOMAIN changed \subseteq Uids
  BY GoneIs DEF TypeOK, KeysInv, FinishRound
<1>1. PICK fk \in NewKeys(new) :
        LET keys == [u \in DOMAIN TakeWireKeys(Gone) \cup DOMAIN fk |->
                       IF u \in DOMAIN fk THEN fk[u] ELSE wireKeys[u]]
        IN  /\ {WireKey(keys, u) : u \in DOMAIN changed} \subseteq Keys
            /\ wireKeys' = keys
            /\ nextKey' = nextKey + Cardinality(DOMAIN fk)
  BY DEF FinishRound
<1>2. /\ wireKeys' = [u \in (DOMAIN wireKeys \ Gone) \cup DOMAIN fk |->
                       IF u \in DOMAIN fk THEN fk[u] ELSE wireKeys[u]]
      /\ {WireKey(wireKeys', u) : u \in DOMAIN changed} \subseteq Keys
      /\ nextKey' = n + Cardinality(DOMAIN fk)
  BY <1>1 DEF TakeWireKeys, Without
<1>3. CASE Named
  <2>1. DOMAIN fk = {} /\ DOMAIN wireKeys = {}
    BY <1>3 DEF NewKeys, NumberedInv
  <2>2. Cardinality(DOMAIN fk) = 0
    BY <2>1, FS_EmptySet
  <2> QED BY <1>0, <1>2, <1>3, <2>1, <2>2
<1>4. CASE ~Named
  <2>1. IsFiniteSet(new)
    BY <1>0, FS_Subset
  <2>2. /\ fk \in [new -> (n + 1)..(n + Cardinality(new))]
        /\ \A u, w \in new : u # w => fk[u] # fk[w]
        /\ DOMAIN fk = new
    BY <1>4 DEF NewKeys
  <2>3. Cardinality(new) \in Nat /\ (new = {} => Cardinality(new) = 0)
    BY <2>1, FS_CardinalityType, FS_EmptySet
  <2>4. PICK c \in Nat : c = Cardinality(new) /\ nextKey' = n + c
    BY <1>2, <2>2, <2>3
  <2>5. \A u \in new : fk[u] \in Int /\ fk[u] > n /\ fk[u] <= n + c
    <3> HIDE DEF new
    <3> QED BY <1>0, <2>2, <2>4
  <2>6. \A u \in new : wireKeys'[u] = fk[u] /\ fk[u] \in 1..MaxHandle
    <3> SUFFICES ASSUME NEW u \in new PROVE wireKeys'[u] = fk[u] /\ fk[u] \in 1..MaxHandle
      OBVIOUS
    <3>1. wireKeys'[u] = fk[u]
      BY <1>2, <2>2
    <3>2. WireKey(wireKeys', u) = fk[u]
      BY <1>4, <3>1 DEF WireKey
    <3> QED BY <1>2, <1>4, <3>1, <3>2 DEF Keys
  <2>7. nextKey' \in 0..MaxHandle
    <3>1. CASE new = {}
      BY <1>0, <2>3, <2>4, <3>1
    <3>2. CASE new # {}
      <4>1. n \in Nat
        BY <1>0
      <4>2. PICK u \in new : fk[u] = n + Cardinality(new)
        <5> HIDE DEF new, n
        <5> QED BY <2>1, <2>2, <3>2, <4>1, AllNumbersUsed
      <4> HIDE DEF new
      <4> QED BY <2>4, <2>6, <4>1, <4>2
    <3> QED BY <3>1, <3>2
  <2>8. /\ DOMAIN wireKeys' = (DOMAIN wireKeys \ Gone) \cup new
        /\ \A u \in DOMAIN wireKeys \ Gone : wireKeys'[u] = wireKeys[u]
    BY <1>2, <2>2
  <2>9. DOMAIN wireKeys' = (DOMAIN wireKeys \ Gone) \cup DOMAIN changed
    BY <1>0, <2>8
  <2>10. /\ wireKeys' \in [DOMAIN wireKeys' -> 1..MaxHandle]
         /\ \A u \in DOMAIN wireKeys' : u \in DOMAIN wireKeys => wireKeys'[u] = wireKeys[u]
         /\ \A u \in DOMAIN wireKeys' : u \notin DOMAIN wireKeys => wireKeys'[u] > nextKey
         /\ \A u \in DOMAIN wireKeys' : wireKeys'[u] <= nextKey'
    <3>1. ASSUME NEW u \in DOMAIN wireKeys'
          PROVE  /\ wireKeys'[u] \in 1..MaxHandle
                 /\ u \in DOMAIN wireKeys => wireKeys'[u] = wireKeys[u]
                 /\ u \notin DOMAIN wireKeys => wireKeys'[u] > nextKey
                 /\ wireKeys'[u] <= nextKey'
      <4>1. CASE u \in new
        <5>1. u \notin DOMAIN wireKeys
          BY <4>1
        <5> HIDE DEF new
        <5> QED BY <1>0, <2>4, <2>5, <2>6, <4>1, <5>1
      <4>2. CASE u \in DOMAIN wireKeys \ Gone
        <5> HIDE DEF new
        <5> QED BY <1>0, <2>4, <2>8, <4>2
      <4> QED BY <2>8, <3>1, <4>1, <4>2
    <3>2. wireKeys' \in [DOMAIN wireKeys' -> 1..MaxHandle]
      BY <1>2, <3>1
    <3> QED BY <3>1, <3>2
  <2>11. ASSUME NEW u \in DOMAIN wireKeys', NEW w \in DOMAIN wireKeys',
                wireKeys'[u] = wireKeys'[w]
         PROVE  u = w
    <3>1. CASE u \in new /\ w \in new
      BY <2>2, <2>6, <2>11, <3>1
    <3>2. CASE u \in DOMAIN wireKeys /\ w \in DOMAIN wireKeys
      BY <1>0, <2>10, <2>11, <3>2
    <3>3. CASE (u \in DOMAIN wireKeys) # (w \in DOMAIN wireKeys)
      <4>1. /\ wireKeys'[u] \in Int /\ wireKeys'[w] \in Int /\ n \in Int
            /\ u \in DOMAIN wireKeys => wireKeys'[u] <= n
            /\ w \in DOMAIN wireKeys => wireKeys'[w] <= n
            /\ u \notin DOMAIN wireKeys => wireKeys'[u] > n
            /\ w \notin DOMAIN wireKeys => wireKeys'[w] > n
        BY <1>0, <2>10, <2>11
      <4> QED BY <2>11, <3>3, <4>1
    <3> QED BY <2>8, <3>1, <3>2, <3>3
  <2> QED BY <1>4, <2>7, <2>9, <2>10, <2>11
<1> QED BY <1>3, <1>4

\* The reader is told of what it was told before, less what is gone, and of what
\* changed.
LEMMA FinishShown ==
  ASSUME Inv, FinishRound
  PROVE  /\ DOMAIN listed' = {u \in DOMAIN listed : ScopeOf[u] # scope} \cup DOMAIN said
         /\ listed' \in [DOMAIN listed' -> Row]
         /\ \A u \in DOMAIN listed' : listed'[u] = Merge(At(listed, u), At(changed, u))
         /\ \A u \in DOMAIN listed' : listed'[u] = Merge(At(listed, u), At(said, u))
         /\ Shown' = (Shown \ Gone) \cup DOMAIN changed
<1> USE VariantCacheAssumption DEF Inv
<1>0. /\ listed \in [DOMAIN listed -> Row] /\ said \in [DOMAIN said -> Row]
      /\ changed \in [DOMAIN changed -> Row] /\ inRound
      /\ Gone = {u \in DOMAIN entries : ScopeOf[u] = scope /\ u \notin DOMAIN said}
      /\ DOMAIN changed \cap Gone = {} /\ DOMAIN changed \subseteq DOMAIN said
      /\ DOMAIN entries = DOMAIN listed \cup DOMAIN said
      /\ \A u \in DOMAIN said : ScopeOf[u] = scope
  BY GoneIs DEF TypeOK, FinishRound, EntriesInv, RoundInv
<1>1. /\ DOMAIN listed' = {u \in DOMAIN listed : ScopeOf[u] # scope} \cup DOMAIN said
      /\ listed' = [u \in DOMAIN listed' |->
                     IF u \in DOMAIN said THEN Merge(At(listed, u), said[u]) ELSE listed[u]]
  BY DEF FinishRound, Relisted
<1>2. \A u : At(listed, u) \in Row /\ At(changed, u) \in Row /\ At(said, u) \in Row
  BY <1>0, AtRow
<1>3. ASSUME NEW u \in DOMAIN listed'
      PROVE  /\ listed'[u] = Merge(At(listed, u), At(changed, u))
             /\ listed'[u] = Merge(At(listed, u), At(said, u))
             /\ listed'[u] \in Row
  <2>1. CASE u \in DOMAIN said
    <3>1. listed'[u] = Merge(At(listed, u), said[u]) /\ At(said, u) = said[u] /\ said[u] \in Row
      BY <1>0, <1>1, <2>1 DEF At
    <3>2. \A f \in Fields : At(changed, u)[f] = IF said[u][f] = At(listed, u)[f] THEN Unset
                                                ELSE said[u][f]
      BY <2>1 DEF ChangedInv
    <3>3. Merge(At(listed, u), said[u]) = Merge(At(listed, u), At(changed, u))
      BY <1>2, <3>2 DEF Merge
    <3> QED BY <1>2, <3>1, <3>3, MergeRow
  <2>2. CASE u \notin DOMAIN said
    <3>1. /\ listed'[u] = listed[u] /\ At(listed, u) = listed[u] /\ listed[u] \in Row
          /\ At(said, u) = Blank /\ At(changed, u) = Blank
      BY <1>0, <1>1, <1>3, <2>2 DEF At
    <3> QED BY <3>1, MergeRow, BlankRow
  <2> QED BY <2>1, <2>2
<1>4. listed' \in [DOMAIN listed' -> Row]
  BY <1>1, <1>3
<1>5. ASSUME NEW u PROVE u \in Shown' <=> u \in (Shown \ Gone) \cup DOMAIN changed
  <2>1. CASE u \in DOMAIN changed
    <3>1. u \in DOMAIN listed' /\ At(changed, u) = changed[u]
      BY <1>0, <1>1, <2>1 DEF At
    <3>2. PICK f \in Fields : changed[u][f] # Unset
      BY <2>1 DEF ChangedInv
    <3>3. listed'[u][f] # Unset
      BY <1>3, <3>1, <3>2 DEF Merge
    <3>4. listed'[u] # Blank
      BY <3>3 DEF Blank
    <3> QED BY <2>1, <3>1, <3>4 DEF Shown
  <2>2. CASE u \notin DOMAIN changed
    <3>1. At(changed, u) = Blank
      BY <2>2 DEF At
    <3>2. u \in DOMAIN listed' => listed'[u] = At(listed, u)
      BY <1>2, <1>3, <3>1, MergeRow, BlankRow
    <3>3. u \in DOMAIN listed' /\ listed'[u] # Blank <=> u \in Shown /\ u \notin Gone
      BY <1>0, <1>1, <3>2 DEF Shown, At
    <3> QED BY <2>2, <3>3 DEF Shown
  <2> QED BY <2>1, <2>2
<1> QED BY <1>1, <1>3, <1>4, <1>5

\* Which makes the numbers those of what the reader is told of.
LEMMA FinishNumbered ==
  ASSUME Inv, FinishRound
  PROVE  NumberedInv' /\ KeysInv' /\ DOMAIN wireKeys' \subseteq Uids
<1> USE DEF Inv
<1>1. NumberedInv'
  BY FinishKeys, FinishShown DEF NumberedInv
<1>2. DOMAIN entries' \subseteq DOMAIN entries /\ \A u \in DOMAIN entries' : entries'[u] = entries[u]
  BY DEF FinishRound, Without
<1>3. KeysInv'
  BY <1>2, FinishKeys DEF KeysInv
<1>4. DOMAIN wireKeys' \subseteq Uids
  <2>1. DOMAIN wireKeys \subseteq Uids /\ DOMAIN changed \subseteq Uids
    BY DEF TypeOK
  <2>2. DOMAIN wireKeys' = IF Named THEN {} ELSE (DOMAIN wireKeys \ Gone) \cup DOMAIN changed
    BY FinishKeys
  <2> QED BY <2>1, <2>2
<1> QED BY <1>1, <1>3, <1>4

\* The message: the rows that changed, each under its thing's key.
LEMMA FinishSent ==
  ASSUME Inv, FinishRound
  PROVE  /\ sent' # NoMsg /\ \E K \in SUBSET Keys : sent' \in Msg(K)
         /\ sent'.fresh = fresh /\ sent'.removed = Removed(Gone)
         /\ DOMAIN sent'.changed = {WireKey(wireKeys', u) : u \in DOMAIN changed}
         /\ \A u \in DOMAIN changed :
              sent'.changed[WireKey(wireKeys', u)] = [who |-> u, row |-> changed[u]]
<1> USE VariantCacheAssumption DEF Inv
<1>0. PICK fk \in NewKeys({u \in DOMAIN changed : u \notin DOMAIN wireKeys}) :
        LET keys == [u \in DOMAIN TakeWireKeys(Gone) \cup DOMAIN fk |->
                       IF u \in DOMAIN fk THEN fk[u] ELSE wireKeys[u]]
            ks == {WireKey(keys, u) : u \in DOMAIN changed}
        IN  /\ ks \subseteq Keys
            /\ wireKeys' = keys
            /\ sent' = [fresh |-> fresh, removed |-> Removed(Gone),
                        changed |-> [k \in ks |->
                          LET u == CHOOSE w \in DOMAIN changed : WireKey(keys, w) = k
                          IN  [who |-> u, row |-> changed[u]]]]
  BY Zenon DEF FinishRound
<1> DEFINE keys == [u \in DOMAIN TakeWireKeys(Gone) \cup DOMAIN fk |->
                      IF u \in DOMAIN fk THEN fk[u] ELSE wireKeys[u]]
           keyed == {WireKey(keys, u) : u \in DOMAIN changed}
           owner(k) == CHOOSE w \in DOMAIN changed : WireKey(keys, w) = k
           body == [k \in keyed |-> [who |-> owner(k), row |-> changed[owner(k)]]]
<1>1. /\ keyed \subseteq Keys /\ wireKeys' = keys
      /\ sent' = [fresh |-> fresh, removed |-> Removed(Gone), changed |-> body]
  BY <1>0, Zenon
<1> HIDE DEF keys
<1>2. \A u \in DOMAIN changed : u \in Shown'
  BY FinishShown
<1>3. ASSUME NEW u \in DOMAIN changed, NEW w \in DOMAIN changed,
             WireKey(keys, u) = WireKey(keys, w)
      PROVE  u = w
  BY <1>1, <1>2, <1>3, FinishNumbered DEF KeysInv, NumberedInv, WireKey
<1>4. \A u \in DOMAIN changed : owner(WireKey(keys, u)) = u
  BY <1>3
<1>5. /\ DOMAIN body = keyed
      /\ \A u \in DOMAIN changed : body[WireKey(keys, u)] = [who |-> u, row |-> changed[u]]
  BY <1>4
<1>6. body \in [keyed -> WireRow]
  <2>1. ASSUME NEW k \in keyed PROVE body[k] \in WireRow
    <3>1. PICK u \in DOMAIN changed : k = WireKey(keys, u)
      BY <2>1
    <3>2. body[k] = [who |-> u, row |-> changed[u]]
      BY <1>5, <3>1
    <3>3. u \in Uids /\ changed[u] \in Row
      BY DEF TypeOK
    <3> QED BY <3>2, <3>3 DEF WireRow
  <2> QED BY <2>1
<1>7. Removed(Gone) \subseteq Keys
  BY DEF Removed, Gone, Keys, TypeOK
<1> HIDE DEF keyed, body
<1>8. sent' \in Msg(keyed)
  BY <1>1, <1>6, <1>7 DEF Msg, TypeOK
<1>9. sent' # NoMsg
  BY <1>1, <1>8, NoMsgAssumption
<1>10. sent'.fresh = fresh /\ sent'.removed = Removed(Gone) /\ sent'.changed = body
  BY <1>1
<1> QED BY <1>1, <1>5, <1>8, <1>9, <1>10 DEF keyed

\* What a reader in step keeps of its copy: the rows that are not gone.
LEMMA FinishBase ==
  ASSUME Inv, FinishRound, ~fresh
  PROVE  /\ inSync /\ sent = NoMsg /\ inSync' /\ copy' = copy
         /\ DOMAIN Base' = {WireKey(wireKeys', u) : u \in Shown \ Gone}
         /\ \A u \in Shown \ Gone :
              /\ WireKey(wireKeys', u) = WireKey(wireKeys, u)
              /\ Base'[WireKey(wireKeys', u)] = [who |-> u, row |-> listed[u]]
         /\ \A u \in DOMAIN changed : u \notin Shown => WireKey(wireKeys', u) \notin DOMAIN copy
<1> USE VariantCacheAssumption DEF Inv
<1>1. inSync /\ sent = NoMsg /\ inSync' /\ copy' = copy
  BY DEF FinishRound, RoundInv, ReaderInv
<1>2. /\ DOMAIN copy = {WireKey(wireKeys, u) : u \in Shown}
      /\ \A u \in Shown : copy[WireKey(wireKeys, u)] = [who |-> u, row |-> listed[u]]
  BY <1>1, CopyHolds
<1>3. \A u \in Shown \ Gone : WireKey(wireKeys', u) = WireKey(wireKeys, u)
  BY FinishKeys DEF WireKey, NumberedInv
<1>4. Base' = Without(copy, Removed(Gone))
  BY <1>1, FinishSent DEF Base
<1>5. \A u \in Shown : WireKey(wireKeys, u) \in Removed(Gone) <=> u \in Gone
  <2>1. CASE Named
    BY <2>1 DEF Removed, WireKey
  <2>2. CASE ~Named
    BY <2>2 DEF Removed, WireKey, KeysInv, NumberedInv
  <2> QED BY <2>1, <2>2
<1>6. DOMAIN Base' = {WireKey(wireKeys, u) : u \in Shown \ Gone}
  BY <1>2, <1>4, <1>5 DEF Without
<1>7. ASSUME NEW u \in Shown \ Gone
      PROVE  Base'[WireKey(wireKeys', u)] = [who |-> u, row |-> listed[u]]
  BY <1>2, <1>3, <1>4, <1>6 DEF Without
<1>8. ASSUME NEW u \in DOMAIN changed, u \notin Shown
      PROVE  WireKey(wireKeys', u) \notin DOMAIN copy
  <2> SUFFICES ASSUME NEW w \in Shown, WireKey(wireKeys', u) = WireKey(wireKeys, w)
               PROVE  FALSE
    BY <1>2
  <2>1. CASE Named
    BY <1>8, <2>1 DEF WireKey
  <2>2. CASE ~Named
    <3>1. u \in DOMAIN wireKeys' /\ u \notin DOMAIN wireKeys /\ w \in DOMAIN wireKeys
      BY <1>8, <2>2, FinishKeys DEF NumberedInv
    <3>2. /\ wireKeys'[u] \in Int /\ wireKeys'[u] > nextKey /\ nextKey \in Int
          /\ wireKeys[w] \in Int /\ wireKeys[w] <= nextKey
      BY <3>1, FinishKeys DEF TypeOK, KeysInv
    <3>3. wireKeys'[u] = wireKeys[w]
      BY <2>2 DEF WireKey
    <3> QED BY <3>2, <3>3
  <2> QED BY <2>1, <2>2
<1> QED BY <1>1, <1>3, <1>6, <1>7, <1>8

\* The message brings the whole of the difference.
LEMMA FinishAfter ==
  ASSUME Inv, FinishRound
  PROVE  /\ DOMAIN After' = {WireKey(wireKeys', u) : u \in Shown'}
         /\ \A u \in Shown' :
              After'[WireKey(wireKeys', u)] = [who |-> u, row |-> listed'[u]]
<1> DEFINE key(u) == WireKey(wireKeys', u)
<1> USE VariantCacheAssumption DEF Inv
<1>0. /\ sent' # NoMsg /\ sent'.fresh = fresh
      /\ DOMAIN sent'.changed = {key(u) : u \in DOMAIN changed}
      /\ \A u \in DOMAIN changed : sent'.changed[key(u)] = [who |-> u, row |-> changed[u]]
      /\ \A u \in DOMAIN changed : changed[u] \in Row /\ At(changed, u) = changed[u]
      /\ Shown' = (Shown \ Gone) \cup DOMAIN changed
      /\ \A u \in Shown' : listed'[u] = Merge(At(listed, u), At(changed, u))
      /\ \A u : At(listed, u) \in Row /\ At(changed, u) \in Row
  <2>1. \A u \in Shown' : listed'[u] = Merge(At(listed, u), At(changed, u))
    BY FinishShown DEF Shown
  <2>2. \A u : At(listed, u) \in Row /\ At(changed, u) \in Row
    BY AtRow DEF TypeOK
  <2>3. \A u \in DOMAIN changed : changed[u] \in Row /\ At(changed, u) = changed[u]
    BY DEF TypeOK, At
  <2> QED BY <2>1, <2>2, <2>3, FinishSent, FinishShown
<1>1. \A u, w \in Shown' : key(u) = key(w) => u = w
  BY FinishNumbered DEF KeysInv, NumberedInv, WireKey
<1>2. /\ DOMAIN After' = DOMAIN Base' \cup DOMAIN sent'.changed
      /\ \A k \in DOMAIN After' :
           After'[k] = IF k \notin DOMAIN sent'.changed THEN Base'[k]
                       ELSE IF k \notin DOMAIN Base' THEN sent'.changed[k]
                       ELSE [Base'[k] EXCEPT !.row = Merge(@, sent'.changed[k].row)]
  BY <1>0 DEF After, Put
<1>3. CASE fresh
  <2>1. DOMAIN Base' = {}
    BY <1>0, <1>3 DEF Base, Nothing
  <2>2. DOMAIN listed = {} /\ Shown = {}
    BY <1>3 DEF FinishRound, RoundInv, Shown
  <2>3. ASSUME NEW u \in Shown'
        PROVE  After'[key(u)] = [who |-> u, row |-> listed'[u]]
    <3>1. u \in DOMAIN changed /\ At(listed, u) = Blank
      BY <1>0, <2>2 DEF At
    <3>2. key(u) \in DOMAIN sent'.changed /\ key(u) \in DOMAIN After'
      BY <1>0, <1>2, <3>1
    <3>3. After'[key(u)] = sent'.changed[key(u)]
      BY <1>2, <2>1, <3>2
    <3>4. listed'[u] = changed[u]
      BY <1>0, <3>1, MergeRow
    <3> QED BY <1>0, <3>1, <3>3, <3>4
  <2> QED BY <1>0, <1>2, <2>1, <2>2, <2>3
<1>4. CASE ~fresh
  <2> HIDE DEF key
  <2>1. /\ DOMAIN Base' = {key(u) : u \in Shown \ Gone}
        /\ \A u \in Shown \ Gone : Base'[key(u)] = [who |-> u, row |-> listed[u]]
        /\ \A u \in DOMAIN changed : u \notin Shown => key(u) \notin DOMAIN Base'
    <3>1. DOMAIN Base' \subseteq DOMAIN copy
      BY <1>0, <1>4, FinishBase DEF Base, Without
    <3> QED BY <1>4, <3>1, FinishBase DEF key
  <2>2. \A u \in DOMAIN changed : u \notin Gone
    BY GoneIs DEF FinishRound
  <2>3. ASSUME NEW u \in Shown'
        PROVE  After'[key(u)] = [who |-> u, row |-> listed'[u]]
    <3>0. key(u) \in DOMAIN After' /\ (u \in DOMAIN changed <=> key(u) \in DOMAIN sent'.changed)
      BY <1>0, <1>1, <1>2, <2>1
    <3>1. CASE u \in DOMAIN changed /\ u \in Shown
      <4>1. /\ Base'[key(u)] = [who |-> u, row |-> listed[u]] /\ key(u) \in DOMAIN Base'
            /\ sent'.changed[key(u)] = [who |-> u, row |-> changed[u]]
        BY <1>0, <2>1, <2>2, <3>1
      <4>2. u \in Uids /\ listed[u] \in Row /\ changed[u] \in Row /\ At(listed, u) = listed[u]
        BY <1>0, <3>1 DEF TypeOK, Shown, At
      <4>3. Base'[key(u)] \in WireRow
        BY <4>1, <4>2 DEF WireRow
      <4>4. After'[key(u)] = [Base'[key(u)] EXCEPT !.row = Merge(@, sent'.changed[key(u)].row)]
        BY <1>2, <3>0, <3>1, <4>1
      <4>5. sent'.changed[key(u)].row = changed[u] /\ Base'[key(u)].who = u
            /\ Base'[key(u)].row = listed[u]
        BY <4>1
      <4>6. After'[key(u)] = [who |-> u, row |-> Merge(listed[u], changed[u])]
        BY <4>2, <4>3, <4>4, <4>5, WireRowMerge
      <4> QED BY <1>0, <3>1, <4>2, <4>6
    <3>2. CASE u \in DOMAIN changed /\ u \notin Shown
      <4>1. After'[key(u)] = sent'.changed[key(u)]
        BY <1>2, <2>1, <3>0, <3>2
      <4>2. At(listed, u) = Blank
        BY <3>2 DEF Shown, At
      <4>3. listed'[u] = changed[u]
        BY <1>0, <3>2, <4>2, MergeRow
      <4> QED BY <1>0, <3>2, <4>1, <4>3
    <3>3. CASE u \notin DOMAIN changed
      <4>1. u \in Shown \ Gone /\ At(changed, u) = Blank /\ At(listed, u) = listed[u]
        BY <1>0, <3>3 DEF At, Shown
      <4>2. After'[key(u)] = Base'[key(u)]
        BY <1>2, <3>0, <3>3
      <4>3. listed'[u] = listed[u]
        BY <1>0, <4>1, MergeRow, BlankRow
      <4> QED BY <2>1, <4>1, <4>2, <4>3
    <3> QED BY <3>1, <3>2, <3>3
  <2>4. DOMAIN After' = {key(u) : u \in Shown'}
    BY <1>0, <1>2, <2>1
  <2> QED BY <2>3, <2>4 DEF key
<1> QED BY <1>3, <1>4

LEMMA FinishRoundInv == Inv /\ FinishRound => Inv'
<1> SUFFICES ASSUME Inv, FinishRound PROVE Inv'
  OBVIOUS
<1> USE VariantCacheAssumption DEF Inv
<1>0. /\ entries' = Without(entries, Gone) /\ changed' = Nothing /\ inRound' = FALSE
      /\ said' = Nothing /\ inRound /\ UNCHANGED <<scope, fresh, copy, inSync>>
  BY DEF FinishRound
<1>1. /\ DOMAIN entries' = DOMAIN entries \ Gone
      /\ \A u \in DOMAIN entries' : entries'[u] = entries[u]
      /\ DOMAIN changed' = {} /\ DOMAIN said' = {} /\ sent = NoMsg /\ sent' # NoMsg
  BY <1>0, FinishSent DEF Without, Nothing, RoundInv
<1>2. TypeOK'
  <2>1. DOMAIN entries' \subseteq Uids /\ entries' \in [DOMAIN entries' -> SEntry]
    BY <1>0, <1>1 DEF Without, TypeOK
  <2>2. changed' \in [DOMAIN changed' -> Row] /\ said' \in [DOMAIN said' -> Row]
    BY <1>0, <1>1 DEF Nothing
  <2>3. DOMAIN listed' \subseteq Uids /\ listed' \in [DOMAIN listed' -> Row]
    BY FinishShown DEF TypeOK
  <2> QED BY <1>0, <1>1, <2>1, <2>2, <2>3, FinishSent, FinishKeys, FinishNumbered DEF TypeOK
<1>3. KeysInv' /\ NumberedInv'
  BY FinishNumbered
<1>4. RoundInv' /\ ChangedInv'
  BY <1>0, <1>1 DEF RoundInv, ChangedInv
<1>5. EntriesInv'
  <2>1. DOMAIN entries' = DOMAIN listed'
    BY <1>0, <1>1, GoneIs, FinishShown DEF EntriesInv, RoundInv
  <2>2. ASSUME NEW u \in DOMAIN entries'
        PROVE  entries'[u].Fields = Merge(At(listed', u), At(said', u))
    <3>1. entries'[u].Fields = Merge(At(listed, u), At(said, u))
      BY <1>1, <2>2 DEF EntriesInv
    <3>2. listed'[u] = Merge(At(listed, u), At(said, u)) /\ listed'[u] \in Row
      BY <2>1, <2>2, FinishShown
    <3>3. At(listed', u) = listed'[u] /\ At(said', u) = Blank
      BY <1>1, <2>1, <2>2 DEF At
    <3> QED BY <3>1, <3>2, <3>3, MergeRow, BlankRow
  <2> QED BY <1>1, <2>1, <2>2 DEF EntriesInv
<1>6. ReaderInv'
  <2>1. ~inSync' => sent'.fresh
    BY <1>0, FinishSent, FinishBase DEF TypeOK
  <2>2. inSync' /\ sent'.fresh => DOMAIN copy' = {}
    <3> SUFFICES ASSUME inSync, fresh PROVE DOMAIN copy = {}
      BY <1>0, FinishSent
    <3>1. Shown = {}
      BY <1>0 DEF RoundInv, Shown
    <3> QED BY <1>1, <3>1, CopyHolds
  <2>3. \A j, k \in DOMAIN copy' : copy'[j].who = copy'[k].who => j = k
    BY <1>0 DEF ReaderInv
  <2> QED BY <1>1, <2>1, <2>2, <2>3, FinishAfter DEF ReaderInv
<1>7. RemovedInv'
  <2> SUFFICES ASSUME ~Named
               PROVE  IF fresh THEN Removed(Gone) = {} ELSE Removed(Gone) \subseteq DOMAIN copy
    BY <1>0, FinishSent DEF RemovedInv, RemovedIsKnown
  <2>1. CASE fresh
    <3>1. DOMAIN wireKeys = {}
      BY <1>0, <2>1 DEF RoundInv, NumberedInv, Shown
    <3> QED BY <2>1, <3>1 DEF Removed
  <2>2. CASE ~fresh
    <3>1. DOMAIN copy = {WireKey(wireKeys, u) : u \in Shown}
      BY <1>1, <2>2, FinishBase, CopyHolds
    <3> QED BY <2>2, <3>1 DEF Removed, WireKey, NumberedInv
  <2> QED BY <2>1, <2>2
<1>8. OnlyChangesTravel'
  <2> SUFFICES ASSUME ~fresh, NEW k \in DOMAIN sent'.changed, k \in DOMAIN copy, NEW f \in Fields,
                      sent'.changed[k].row[f] # Unset
               PROVE  sent'.changed[k].row[f] # copy[k].row[f]
    BY <1>0, FinishSent DEF OnlyChangesTravel
  <2>1. PICK u \in DOMAIN changed : k = WireKey(wireKeys', u)
    BY FinishSent
  <2>2. sent'.changed[k] = [who |-> u, row |-> changed[u]]
    BY <2>1, FinishSent
  <2>3. u \in Shown /\ u \notin Gone
    BY <1>0, <2>1, FinishBase, GoneIs
  <2>4. copy[k] = [who |-> u, row |-> listed[u]]
    <3>1. k = WireKey(wireKeys, u)
      BY <2>1, <2>3, FinishBase
    <3> QED BY <1>1, <2>3, <3>1, FinishBase, CopyHolds
  <2>5. u \in DOMAIN said /\ At(changed, u) = changed[u] /\ At(listed, u) = listed[u]
    BY <2>3 DEF ChangedInv, At, Shown
  <2>6. changed[u][f] = IF said[u][f] = listed[u][f] THEN Unset ELSE said[u][f]
    BY <2>5 DEF ChangedInv
  <2> QED BY <2>2, <2>4, <2>6
<1>9. KeysAgree'
  <2> SUFFICES ASSUME inSync, NEW u \in DOMAIN wireKeys', NEW k \in DOMAIN copy, wireKeys'[u] = k
               PROVE  copy[k].who = u
    BY <1>0 DEF KeysAgree
  <2>1. ~Named /\ u \in Shown'
    BY <1>3 DEF NumberedInv
  <2>2. ~fresh
    <3> SUFFICES ASSUME fresh PROVE DOMAIN copy = {}
      OBVIOUS
    <3>1. Shown = {}
      BY <1>0 DEF RoundInv, Shown
    <3> QED BY <1>1, <3>1, CopyHolds
  <2>3. WireKey(wireKeys', u) = k
    BY <2>1 DEF WireKey
  <2>4. u \in Shown \ Gone
    <3>1. \A w \in DOMAIN changed : w \notin Shown => WireKey(wireKeys', w) \notin DOMAIN copy
      BY <2>2, FinishBase
    <3>2. Shown' = (Shown \ Gone) \cup DOMAIN changed /\ DOMAIN changed \cap Gone = {}
      BY <1>0, FinishShown, GoneIs
    <3> QED BY <2>1, <2>3, <3>1, <3>2
  <2>5. copy[k] = [who |-> u, row |-> listed[u]]
    <3>1. k = WireKey(wireKeys, u)
      BY <2>2, <2>3, <2>4, FinishBase
    <3> QED BY <1>1, <2>4, <3>1, CopyHolds
  <2> QED BY <2>5
<1> QED BY <1>2, <1>3, <1>4, <1>5, <1>6, <1>7, <1>8, <1>9 DEF MessageInv
-----------------------------------------------------------------------------
LEMMA StepInv == Inv /\ [Next]_vars => Inv'
<1> SUFFICES ASSUME Inv, [Next]_vars PROVE Inv'
  OBVIOUS
<1>1. ASSUME NEW sc \in Scopes, BeginRound(sc) PROVE Inv'
  BY <1>1, BeginRoundInv
<1>2. ASSUME NEW sc \in Scopes, ClearScope(sc) PROVE Inv'
  BY <1>2, ClearScopeInv
<1>3. ASSUME NEW u \in Uids, Keep(u) PROVE Inv'
  BY <1>3, KeepInv
<1>4. ASSUME NEW u \in Uids, NEW f \in Fields, NEW v \in Values, Write(u, f, v) PROVE Inv'
  BY <1>4, WriteInv
<1>5. CASE FinishRound
  BY <1>5, FinishRoundInv
<1>6. CASE Clear
  BY <1>6, ClearInv
<1>7. CASE NewSession
  BY <1>7, NewSessionInv
<1>8. CASE Apply
  BY <1>8, ApplyInv
<1>9. CASE UNCHANGED vars
  <2>1. UNCHANGED <<wireKeys, sent, copy, listed, inSync>>
    BY <1>9 DEF vars
  <2>2. NumberedInv' /\ ReaderInv' /\ MessageInv'
    BY <2>1, ReaderKept
  <2>3. TypeOK'
    BY <1>9 DEF vars, Inv, TypeOK
  <2>4. KeysInv' /\ RoundInv' /\ EntriesInv' /\ ChangedInv'
    BY <1>9 DEF vars, Inv, KeysInv, RoundInv, EntriesInv, ChangedInv
  <2> QED BY <2>2, <2>3, <2>4 DEF Inv
<1> QED BY <1>1, <1>2, <1>3, <1>4, <1>5, <1>6, <1>7, <1>8, <1>9 DEF Next

LEMMA Invariance == Spec => []Inv
  BY InitInv, StepInv, PTL DEF Spec

\* The variables always hold what VariantCache.h declares; in particular every
\* number FinishRound gives out is below the bound on m_NextWireKey, because a
\* round uses up all of the numbers it counts.
THEOREM TypeCorrect == Spec => []TypeOK
<1>1. Inv => TypeOK
  BY DEF Inv
<1> QED BY <1>1, Invariance, PTL

\* In step, the mirror's two sides are the same function.
LEMMA ShownIsVisible ==
  DOMAIN Visible(listed) = Shown /\ \A u \in Shown : Visible(listed)[u] = listed[u]
  BY DEF Visible, Shown

\* A reader that has applied everything it was sent holds the list as the last
\* FinishRound left it, no entry missing, left over or twice (Write, FinishRound,
\* "apply, not replace").
THEOREM CopyIsTheList == Spec => []CopyIsList
<1>1. Inv => CopyIsList
  <2> SUFFICES ASSUME Inv, inSync, sent = NoMsg
               PROVE  /\ {<<copy[k].who, copy[k].row>> : k \in DOMAIN copy}
                           = {<<u, listed[u]>> : u \in DOMAIN Visible(listed)}
                      /\ \A j, k \in DOMAIN copy : copy[j].who = copy[k].who => j = k
    BY DEF CopyIsList
  <2>1. /\ \A u \in Shown : /\ WireKey(wireKeys, u) \in DOMAIN copy
                            /\ copy[WireKey(wireKeys, u)] = [who |-> u, row |-> listed[u]]
        /\ \A k \in DOMAIN copy : copy[k].who \in Shown /\ copy[k].row = listed[copy[k].who]
    BY CopyHolds
  <2>2. ASSUME NEW u \in Shown
        PROVE  \E k \in DOMAIN copy : copy[k].who = u /\ copy[k].row = listed[u]
    <3>0. copy[WireKey(wireKeys, u)] = [who |-> u, row |-> listed[u]]
      BY <2>1
    <3>1. copy[WireKey(wireKeys, u)].who = u /\ copy[WireKey(wireKeys, u)].row = listed[u]
      BY <3>0
    <3> QED BY <2>1, <3>1
  <2>3. DOMAIN Visible(listed) = Shown
    BY ShownIsVisible
  <2>4. \A j, k \in DOMAIN copy : copy[j].who = copy[k].who => j = k
    BY DEF Inv, ReaderInv
  <2> QED BY <2>1, <2>2, <2>3, <2>4
<1> QED BY <1>1, Invariance, PTL

\* A numbered cache (CVariantCache) never tells its reader of the end of
\* something the reader does not hold (TakeWireKey).
THEOREM RemovedAreKnown == ASSUME ~Named PROVE Spec => []RemovedIsKnown
<1>1. Inv => RemovedIsKnown
  BY DEF Inv, MessageInv, RemovedInv
<1> QED BY <1>1, Invariance, PTL

\* No field travels that the reader already holds with that value (Write).
THEOREM ChangesTravel == Spec => []OnlyChangesTravel
<1>1. Inv => OnlyChangesTravel
  BY DEF Inv, MessageInv
<1> QED BY <1>1, Invariance, PTL

\* A number the cache uses and the reader holds means the same thing to both
\* (WireKey).
THEOREM KeysMeanTheSame == Spec => []KeysAgree
<1>1. Inv => KeysAgree
  BY DEF Inv, MessageInv
<1> QED BY <1>1, Invariance, PTL
-----------------------------------------------------------------------------
\* The refinement.

MView == [u \in {copy[k].who : k \in DOMAIN copy} |->
            copy[CHOOSE k \in DOMAIN copy : copy[k].who = u].row]
MState == IF sent # NoMsg THEN "sent" ELSE IF inSync THEN "shown" ELSE "stale"

\* What the reader shows of a thing is the row of its only key.
LEMMA ViewIs ==
  ASSUME ReaderInv, NEW k \in DOMAIN copy
  PROVE  copy[k].who \in DOMAIN MView /\ MView[copy[k].who] = copy[k].row
<1>1. (CHOOSE j \in DOMAIN copy : copy[j].who = copy[k].who) = k
  BY DEF ReaderInv
<1> QED BY <1>1 DEF MView

\* A reader in step shows the list.
LEMMA ViewIsList == Inv /\ inSync /\ sent = NoMsg => MView = Visible(listed)
<1> SUFFICES ASSUME Inv, inSync, sent = NoMsg PROVE MView = Visible(listed)
  OBVIOUS
<1>1. DOMAIN Visible(listed) = Shown /\ \A u \in Shown : Visible(listed)[u] = listed[u]
  BY ShownIsVisible
<1>2. /\ \A u \in Shown : /\ WireKey(wireKeys, u) \in DOMAIN copy
                          /\ copy[WireKey(wireKeys, u)] = [who |-> u, row |-> listed[u]]
      /\ \A k \in DOMAIN copy : copy[k].who \in Shown
  BY CopyHolds
<1>3. ASSUME NEW u \in Shown PROVE u \in DOMAIN MView /\ MView[u] = listed[u]
  <2>0. copy[WireKey(wireKeys, u)] = [who |-> u, row |-> listed[u]]
    BY <1>2
  <2>1. copy[WireKey(wireKeys, u)].who = u /\ copy[WireKey(wireKeys, u)].row = listed[u]
    BY <2>0
  <2> QED BY <1>2, <2>1, ViewIs DEF Inv
<1>4. DOMAIN MView = Shown
  BY <1>2, <1>3 DEF MView
<1> QED BY <1>1, <1>3, <1>4 DEF MView, Visible

LEMMA MirrorInit == Init => Mirror!Init
<1> SUFFICES ASSUME Init PROVE Mirror!Init
  OBVIOUS
<1>1. Visible(listed) = [u \in {} |-> u]
  BY DEF Init, Nothing, Visible
<1>2. MView = [u \in {} |-> u]
  BY DEF Init, Nothing, MView
<1>3. MState = "shown"
  BY DEF Init, MState
<1> QED BY <1>1, <1>2, <1>3 DEF Mirror!Init, Mirror!Empty, MView, MState

LEMMA MirrorRound ==
  ASSUME Inv, FinishRound
  PROVE  Mirror!Round
<1>1. MState # "sent" /\ MState' = "sent"
  BY FinishSent DEF MState, FinishRound, Inv, RoundInv
<1>2. MView' = MView
  BY DEF FinishRound, MView
<1>3. PICK U \in SUBSET Uids : Visible(listed)' \in [U -> Row]
  <2>1. DOMAIN listed' \subseteq Uids /\ listed' \in [DOMAIN listed' -> Row]
    BY FinishShown DEF Inv, TypeOK
  <2>2. Visible(listed') \in [{w \in DOMAIN listed' : listed'[w] # Blank} -> Row]
    BY <2>1 DEF Visible
  <2> QED BY <2>1, <2>2
<1> QED BY <1>1, <1>2, <1>3 DEF Mirror!Round, MView, MState

LEMMA MirrorShow ==
  ASSUME Inv, Apply
  PROVE  Mirror!Show
<1>1. MState = "sent" /\ MState' = "shown"
  BY DEF MState, Apply
<1>2. Visible(listed)' = Visible(listed)
  BY DEF Apply, Visible
<1>3. (Inv /\ inSync /\ sent = NoMsg)'
  BY ApplyInv DEF Apply
<1>4. (MView = Visible(listed))'
  BY <1>3, ViewIsList, PTL
<1> QED BY <1>1, <1>2, <1>4 DEF Mirror!Show, MView, MState

LEMMA MirrorLose ==
  ASSUME NewSession
  PROVE  Mirror!Lose
<1>1. Visible(listed)' = [u \in {} |-> u]
  BY DEF NewSession, Nothing, Visible
<1>2. MView' = MView /\ MState' = "stale"
  BY DEF NewSession, MView, MState
<1> QED BY <1>1, <1>2 DEF Mirror!Lose, Mirror!Empty, MView, MState

LEMMA MirrorClear ==
  ASSUME Inv, Clear
  PROVE  Mirror!Forget
<1>1. MState # "sent" /\ MState' = MState
  BY DEF Clear, MState
<1>2. Visible(listed)' = [u \in DOMAIN Visible(listed) \cap {} |-> Visible(listed)[u]]
  BY DEF Clear, Nothing, Visible
<1>3. MView' = [u \in DOMAIN MView \cap {} |-> MView[u]]
  BY DEF Clear, Nothing, MView
<1>4. {} \in SUBSET Uids
  OBVIOUS
<1> QED BY <1>1, <1>2, <1>3, <1>4 DEF Mirror!Forget, MView, MState

LEMMA MirrorClearScope ==
  ASSUME Inv, NEW sc \in Scopes, ClearScope(sc)
  PROVE  Mirror!Forget
<1> DEFINE U == {u \in Uids : ScopeOf[u] # sc}
<1>1. MState # "sent" /\ MState' = MState
  BY DEF ClearScope, MState
<1>2. Visible(listed)' = [u \in DOMAIN Visible(listed) \cap U |-> Visible(listed)[u]]
  <2>1. /\ DOMAIN listed' = {u \in DOMAIN listed : ScopeOf[u] # sc}
        /\ \A u \in DOMAIN listed' : listed'[u] = listed[u]
    BY DEF ClearScope, Without
  <2>2. DOMAIN Visible(listed)' = DOMAIN Visible(listed) \cap U
    BY <2>1 DEF Visible, Inv, TypeOK
  <2>3. \A u \in DOMAIN Visible(listed)' : Visible(listed)'[u] = Visible(listed)[u]
    BY <2>1 DEF Visible
  <2>4. Visible(listed)' = [u \in DOMAIN Visible(listed)' |-> Visible(listed)'[u]]
    BY DEF Visible
  <2> QED BY <2>2, <2>3, <2>4, Zenon
<1>3. MView' = [u \in DOMAIN MView \cap U |-> MView[u]]
  <2>1. /\ DOMAIN copy' = {k \in DOMAIN copy : ScopeOf[copy[k].who] # sc}
        /\ \A k \in DOMAIN copy' : copy'[k] = copy[k]
        /\ \A k \in DOMAIN copy : copy[k].who \in Uids
    BY DEF ClearScope, Without, Inv, TypeOK, WireRow
  <2>2. DOMAIN MView' = DOMAIN MView \cap U
    BY <2>1 DEF MView
  <2>3. ASSUME NEW u \in DOMAIN MView' PROVE MView'[u] = MView[u]
    <3>1. PICK k \in DOMAIN copy' : copy'[k].who = u
      BY DEF MView
    <3>2. k \in DOMAIN copy /\ copy[k].who = u /\ copy'[k] = copy[k]
      BY <2>1, <3>1
    <3>3. MView[u] = copy[k].row
      BY <3>2, ViewIs DEF Inv
    <3>4. (CHOOSE j \in DOMAIN copy' : copy'[j].who = u) = k
      BY <2>1, <3>1, <3>2 DEF Inv, ReaderInv
    <3>5. MView'[u] = copy'[k].row
      BY <3>4 DEF MView
    <3> QED BY <3>2, <3>3, <3>5
  <2>4. MView' = [u \in DOMAIN MView' |-> MView'[u]]
    BY DEF MView
  <2> QED BY <2>2, <2>3, <2>4, Zenon
<1>4. U \in SUBSET Uids
  OBVIOUS
<1> HIDE DEF U
<1> QED BY <1>1, <1>2, <1>3, <1>4 DEF Mirror!Forget, MView, MState

\* Every step of the cache and its reader is a step of the mirror or none of it.
LEMMA MirrorStep ==
  Inv /\ [Next]_vars => [Mirror!Next]_<<Visible(listed), MView, MState>>
<1> SUFFICES ASSUME Inv, [Next]_vars
             PROVE  Mirror!Next \/ UNCHANGED <<Visible(listed), MView, MState>>
  OBVIOUS
<1>1. ASSUME NEW sc \in Scopes, ClearScope(sc) PROVE Mirror!Next
  BY <1>1, MirrorClearScope DEF Mirror!Next
<1>2. CASE FinishRound
  BY <1>2, MirrorRound DEF Mirror!Next
<1>3. CASE Clear
  BY <1>3, MirrorClear DEF Mirror!Next
<1>4. CASE NewSession
  BY <1>4, MirrorLose DEF Mirror!Next
<1>5. CASE Apply
  BY <1>5, MirrorShow DEF Mirror!Next
<1>6. CASE UNCHANGED <<listed, copy, sent, inSync>>
  <2>1. UNCHANGED Visible(listed)
    BY <1>6 DEF Visible
  <2>2. UNCHANGED MView
    BY <1>6 DEF MView
  <2>3. UNCHANGED MState
    BY <1>6 DEF MState
  <2> QED BY <2>1, <2>2, <2>3
<1>7. ASSUME NEW sc \in Scopes, BeginRound(sc) PROVE UNCHANGED <<listed, copy, sent, inSync>>
  BY <1>7 DEF BeginRound
<1>8. ASSUME NEW u \in Uids, Keep(u) PROVE UNCHANGED <<listed, copy, sent, inSync>>
  BY <1>8 DEF Keep
<1>9. ASSUME NEW u \in Uids, NEW f \in Fields, NEW v \in Values, Write(u, f, v)
      PROVE UNCHANGED <<listed, copy, sent, inSync>>
  BY <1>9 DEF Write
<1>10. CASE UNCHANGED vars
  BY <1>6, <1>10 DEF vars
<1> QED BY <1>1, <1>2, <1>3, <1>4, <1>5, <1>6, <1>7, <1>8, <1>9, <1>10 DEF Next

\* VariantCache implements ListMirror: whatever the cache and the connection do,
\* what the reader shows is a list some round ended with, or that list less what
\* the reader itself threw away, and one message brings it to the current one
\* (FinishRound, Apply, Clear, a new session).
THEOREM ImplementsMirror == Spec => MirrorSpec
<1>1. Init => Mirror!Init
  BY MirrorInit
<1>2. Inv /\ [Next]_vars => [Mirror!Next]_<<Visible(listed), MView, MState>>
  BY MirrorStep
<1> QED BY <1>1, <1>2, Invariance, PTL DEF Spec, MirrorSpec, Mirror!Spec, MView, MState
=============================================================================
