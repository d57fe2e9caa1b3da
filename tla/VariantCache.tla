---------------------------- MODULE VariantCache ----------------------------
(***************************************************************************)
(* CVariantCacheT (src/MiscHelpers/Common/IPC/VariantCache.h): a list sent *)
(* as the difference to what was sent before, and the reader that puts the *)
(* list together again from the differences.                               *)
(*                                                                         *)
(* One cache belongs to one connection and one list.  Its caller runs      *)
(* rounds: BeginRound, a Write for every field of every thing it lists,    *)
(* FinishRound, and the result is sent.  The reader is in a module that is *)
(* not in the repository; it is modelled from what the header asks of it   *)
(* ("what the reader has to do", IsEmpty, Clear).  The viewer asks for a   *)
(* list and waits for it, so one message at a time is under way.           *)
(***************************************************************************)
EXTENDS Integers, FiniteSets

CONSTANTS
  Uids,       \* what the caller keys entries by: object uids, or names
  Fields,     \* field ids
  Values,     \* what a field may hold
  Unset,      \* a field that has not been written
  Scopes,     \* 0 for a system-wide list, a pid for a list of one process
  ScopeOf,    \* the scope each thing is listed under
  Named,      \* CVariantCacheStr (a name is its own key) or CVariantCache
  NoMsg,      \* nothing under way
  MaxHandle   \* bound on m_NextWireKey, below the 2^32 at which it would wrap

ASSUME VariantCacheAssumption ==
  /\ IsFiniteSet(Uids)
  /\ Unset \notin Values
  /\ ScopeOf \in [Uids -> Scopes]
  /\ Named \in BOOLEAN
  /\ MaxHandle \in Nat

Row   == [Fields -> Values \cup {Unset}]
Blank == [f \in Fields |-> Unset]
Merge(old, new) == [f \in Fields |-> IF new[f] # Unset THEN new[f] ELSE old[f]]

Keys == IF Named THEN Uids ELSE 1..MaxHandle

Nothing       == [u \in {} |-> u]
Without(g, S) == [x \in DOMAIN g \ S |-> g[x]]
At(g, x)      == IF x \in DOMAIN g THEN g[x] ELSE Blank

VARIABLES
  entries,   \* m_Entries: the Fields, bSeen and Scope of each entry
  wireKeys,  \* m_WireKeys
  nextKey,   \* m_NextWireKey
  changed,   \* m_Changed
  scope,     \* m_Scope
  inRound,   \* m_bInRound
  fresh,     \* whether the cache was empty when the round began
  sent,      \* the message under way to the reader
  copy,      \* the reader's copy, by wire key
  said,      \* what the caller has said in this round
  listed,    \* what the caller had said when the last round ended
  inSync     \* whether the reader has heard from this connection's cache

cache == <<entries, wireKeys, nextKey, changed, scope, inRound, fresh>>
vars  == <<entries, wireKeys, nextKey, changed, scope, inRound, fresh, sent, copy,
           said, listed, inSync>>

SEntry == [Fields : Row, bSeen : BOOLEAN, Scope : Scopes]

\* A row on its way and in the reader's hands.  "who" stands for the identity
\* the reader takes from a field inside the entry.
WireRow == [who : Uids, row : Row]
Msg(K)  == [fresh : BOOLEAN, changed : [K -> WireRow], removed : SUBSET Keys]

ASSUME NoMsgAssumption == \A K \in SUBSET Keys : NoMsg \notin Msg(K)

Init ==
  /\ entries = Nothing /\ wireKeys = Nothing /\ nextKey = 0 /\ changed = Nothing
  /\ scope \in Scopes /\ inRound = FALSE /\ fresh = TRUE
  /\ sent = NoMsg /\ copy = Nothing
  /\ said = Nothing /\ listed = Nothing /\ inSync = TRUE
-----------------------------------------------------------------------------
\* The cache.

\* The caller asks IsEmpty before the round: an empty cache means the reader
\* holds nothing of it, whatever it thinks.  (Slip: it does not ask.)
IsEmpty_Never == FALSE
IsEmpty == DOMAIN entries = {}

\* Only entries of the round's scope are marked as not yet mentioned.
BeginRound(sc) ==
  /\ ~inRound /\ sent = NoMsg
  /\ scope' = sc /\ inRound' = TRUE /\ fresh' = IsEmpty
  /\ changed' = Nothing /\ said' = Nothing
  /\ entries' = [u \in DOMAIN entries |->
                   IF entries[u].Scope = sc THEN [entries[u] EXCEPT !.bSeen = FALSE]
                   ELSE entries[u]]
  /\ UNCHANGED <<wireKeys, nextKey, sent, copy, listed, inSync>>

\* m_Entries[Id], which makes an entry of an unknown key, marked as mentioned
\* in this round.
Mention(u, row) ==
  entries' = [w \in DOMAIN entries \cup {u} |->
                IF w = u THEN [Fields |-> row, bSeen |-> TRUE, Scope |-> scope]
                ELSE entries[w]]
Known(u) == IF u \in DOMAIN entries THEN entries[u].Fields ELSE Blank

\* The caller lists a thing under its scope, and each field of it once a round.
Keep(u) ==
  /\ inRound /\ ScopeOf[u] = scope /\ u \notin DOMAIN said
  /\ Mention(u, Known(u))
  /\ said' = [w \in DOMAIN said \cup {u} |-> At(said, w)]
  /\ UNCHANGED <<wireKeys, nextKey, changed, scope, inRound, fresh, sent, copy,
                 listed, inSync>>

\* The value differs from what was last sent.  (Slips: only a first value does; any
\* value does.)
Differs_First(u, f, v) == Known(u)[f] = Unset
Differs_Always(u, f, v) == v # Unset
Differs(u, f, v) == Known(u)[f] # v

Write(u, f, v) ==
  /\ inRound /\ ScopeOf[u] = scope /\ At(said, u)[f] = Unset
  /\ IF Differs(u, f, v)
     THEN /\ Mention(u, [Known(u) EXCEPT ![f] = v])
          /\ changed' = [w \in DOMAIN changed \cup {u} |->
                           IF w = u THEN [At(changed, u) EXCEPT ![f] = v] ELSE changed[w]]
     ELSE /\ Mention(u, Known(u))
          /\ UNCHANGED changed
  /\ said' = [w \in DOMAIN said \cup {u} |->
                IF w = u THEN [At(said, u) EXCEPT ![f] = v] ELSE said[w]]
  /\ UNCHANGED <<wireKeys, nextKey, scope, inRound, fresh, sent, copy, listed, inSync>>

\* The entries the round did not mention.
Gone == {u \in DOMAIN entries : ~entries[u].bSeen /\ entries[u].Scope = scope}

\* TakeWireKey, for all of them: a name is always its own key, a number has one
\* only if it has travelled.  (Slips: the key stays behind; nothing is reported.)
TakeWireKeys_Kept(gone) == wireKeys
TakeWireKeys(gone) == Without(wireKeys, gone)
Removed_None(gone) == {}
Removed(gone) == IF Named THEN gone ELSE {wireKeys[u] : u \in gone \cap DOMAIN wireKeys}

\* WireKey, for every changed entry: the key it has, or the next number.  Which
\* of several new entries gets which number is left open.
NewKeys(new) ==
  IF Named THEN {[u \in {} |-> 0]}
  ELSE {k \in [new -> (nextKey + 1)..(nextKey + Cardinality(new))] :
          \A u, w \in new : u # w => k[u] # k[w]}
WireKey(keys, u) == IF Named THEN u ELSE keys[u]

\* The reference: what the list is once the caller has finished, the rows of
\* the other scopes untouched.
Relisted ==
  [u \in {w \in DOMAIN listed : ScopeOf[w] # scope} \cup DOMAIN said |->
     IF u \in DOMAIN said THEN Merge(At(listed, u), said[u]) ELSE listed[u]]

FinishRound ==
  /\ inRound
  /\ LET gone == Gone
         new  == {u \in DOMAIN changed : u \notin DOMAIN wireKeys}
     IN  \E fresh_keys \in NewKeys(new) :
           LET keys == [u \in DOMAIN TakeWireKeys(gone) \cup DOMAIN fresh_keys |->
                          IF u \in DOMAIN fresh_keys THEN fresh_keys[u] ELSE wireKeys[u]]
               keyed == {WireKey(keys, u) : u \in DOMAIN changed}
           IN  /\ keyed \subseteq Keys
               /\ wireKeys' = keys
               /\ nextKey' = nextKey + Cardinality(DOMAIN fresh_keys)
               /\ sent' = [fresh |-> fresh, removed |-> Removed(gone),
                           changed |-> [k \in keyed |->
                             LET u == CHOOSE w \in DOMAIN changed : WireKey(keys, w) = k
                             IN  [who |-> u, row |-> changed[u]]]]
         /\ entries' = Without(entries, gone)
  /\ changed' = Nothing /\ inRound' = FALSE
  /\ listed' = Relisted /\ said' = Nothing
  /\ UNCHANGED <<scope, fresh, copy, inSync>>

\* Clear(), asked for by a reader that has thrown its copy away.  The counter
\* is not reset.  (Slip: it is put one before the first number.)
Counter_Before == -1
Counter == nextKey

Clear ==
  /\ ~inRound /\ sent = NoMsg
  /\ entries' = Nothing /\ changed' = Nothing /\ wireKeys' = Nothing
  /\ nextKey' = Counter
  /\ copy' = Nothing /\ listed' = Nothing
  /\ UNCHANGED <<scope, inRound, fresh, sent, said, inSync>>

\* Clear(Scope), asked for by a reader that has thrown that part away.
ClearScope(sc) ==
  LET part == {u \in DOMAIN entries : entries[u].Scope = sc} IN
  /\ ~inRound /\ sent = NoMsg
  /\ entries' = Without(entries, part)
  /\ wireKeys' = Without(wireKeys, part)
  /\ changed' = Nothing
  /\ copy' = Without(copy, {k \in DOMAIN copy : ScopeOf[copy[k].who] = sc})
  /\ listed' = Without(listed, {u \in DOMAIN listed : ScopeOf[u] = sc})
  /\ UNCHANGED <<nextKey, scope, inRound, fresh, sent, said, inSync>>

\* The connection is replaced underneath the reader: a new cache, numbering from
\* the beginning, and whatever was under way is lost.  The reader keeps its copy.
NewSession ==
  /\ entries' = Nothing /\ wireKeys' = Nothing /\ nextKey' = 0 /\ changed' = Nothing
  /\ inRound' = FALSE /\ sent' = NoMsg /\ said' = Nothing /\ listed' = Nothing
  /\ inSync' = FALSE
  /\ UNCHANGED <<scope, fresh, copy>>
-----------------------------------------------------------------------------
\* The reader: apply, not replace.  A message of a cache that was empty when its
\* round began is the exception.
Apply ==
  /\ sent # NoMsg
  /\ LET base == IF sent.fresh THEN Nothing ELSE Without(copy, sent.removed)
         put(k) == IF k \notin DOMAIN sent.changed THEN base[k]
                   ELSE IF k \notin DOMAIN base THEN sent.changed[k]
                   ELSE [base[k] EXCEPT !.row = Merge(@, sent.changed[k].row)]
     IN  copy' = [k \in DOMAIN base \cup DOMAIN sent.changed |-> put(k)]
  /\ sent' = NoMsg /\ inSync' = TRUE
  /\ UNCHANGED <<cache, said, listed>>

Next ==
  \/ \E sc \in Scopes : BeginRound(sc) \/ ClearScope(sc)
  \/ \E u \in Uids : Keep(u)
  \/ \E u \in Uids, f \in Fields, v \in Values : Write(u, f, v)
  \/ FinishRound \/ Clear \/ NewSession \/ Apply

Spec == Init /\ [][Next]_vars
-----------------------------------------------------------------------------
\* Rows the reader has been told of: an entry that was only kept never travels.
Visible(rows) == [u \in {w \in DOMAIN rows : rows[w] # Blank} |-> rows[u]]

\* The variables hold what VariantCache.h declares.
TypeOK ==
  /\ DOMAIN entries \subseteq Uids /\ entries \in [DOMAIN entries -> SEntry]
  /\ DOMAIN wireKeys \subseteq Uids /\ wireKeys \in [DOMAIN wireKeys -> 1..MaxHandle]
  /\ nextKey \in 0..MaxHandle
  /\ DOMAIN changed \subseteq Uids /\ changed \in [DOMAIN changed -> Row]
  /\ scope \in Scopes /\ inRound \in BOOLEAN /\ fresh \in BOOLEAN /\ inSync \in BOOLEAN
  /\ sent = NoMsg \/ \E K \in SUBSET Keys : sent \in Msg(K)
  /\ DOMAIN copy \subseteq Keys /\ copy \in [DOMAIN copy -> WireRow]
  /\ DOMAIN said \subseteq Uids /\ said \in [DOMAIN said -> Row]
  /\ DOMAIN listed \subseteq Uids /\ listed \in [DOMAIN listed -> Row]

\* Whenever nothing is under way, the reader's copy is the list as the caller
\* last finished it: no field behind, no entry missing, none left over, and no
\* entry under two keys (Write, FinishRound and the rule "apply, not replace").
CopyIsList ==
  inSync /\ sent = NoMsg =>
    /\ {<<copy[k].who, copy[k].row>> : k \in DOMAIN copy}
         = {<<u, listed[u]>> : u \in DOMAIN Visible(listed)}
    /\ \A j, k \in DOMAIN copy : copy[j].who = copy[k].who => j = k

\* A message names only what is new to its reader: every entry it removes is one
\* the reader holds (FinishRound: "telling it something was removed would be a
\* lie").
RemovedIsKnown ==
  sent # NoMsg => IF sent.fresh THEN sent.removed = {} ELSE sent.removed \subseteq DOMAIN copy

\* ... and every field it carries differs from what the reader has (Write).
OnlyChangesTravel ==
  sent # NoMsg /\ ~sent.fresh =>
    \A k \in DOMAIN sent.changed \cap DOMAIN copy : \A f \in Fields :
      sent.changed[k].row[f] # Unset => sent.changed[k].row[f] # copy[k].row[f]

\* A key is given to one thing and never to another while the reader may still
\* remember it: a key the reader holds and the cache uses stands for the same
\* thing on both sides (WireKey: "monotonic and never reused").
KeysAgree ==
  inSync => \A u \in DOMAIN wireKeys : \A k \in DOMAIN copy :
    wireKeys[u] = k => copy[k].who = u

\* The cache and its reader are a list and its mirror.
Mirror == INSTANCE ListMirror WITH
  Entry <- Row,
  list  <- Visible(listed),
  view  <- [u \in {copy[k].who : k \in DOMAIN copy} |->
              copy[CHOOSE k \in DOMAIN copy : copy[k].who = u].row],
  state <- IF sent # NoMsg THEN "sent" ELSE IF inSync THEN "shown" ELSE "stale"

\* VariantCache implements ListMirror: what the reader shows is always a list
\* some round ended with, and a message brings the whole of the difference.
MirrorSpec == Mirror!Spec
=============================================================================
