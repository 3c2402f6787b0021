---------------------------- MODULE NativeDictionary ----------------------------
(***************************************************************************)
(* NativeDictionary of the hybrid runtime (src/poplan.cpp): a hash table   *)
(* of words that are never removed.  The words of a bucket are chained     *)
(* through the address part of their property words, whose other bits are  *)
(* the class of the binding and the flag of an explicit declaration; calls *)
(* save whole property words and put back their classes (execute).         *)
(*                                                                         *)
(* The hash of a packed name is the constant Bucket; bindings and what     *)
(* calls save of them are in NativeClosures.                               *)
(***************************************************************************)
EXTENDS Naturals, Sequences, FiniteSets

CONSTANTS Names, Buckets,
          Bucket,    \* name -> bucket: hash()
          Handles,   \* addresses of words, positive
          Resident,  \* handle -> [name, link]: native_bootstrap_dictionary()
          MaxSaves

Classes == {"variable", "undeclared", "resident"}

\* c lists for every bucket its words along the chain: each is linked to the next, the
\* last to none, and every word is in the chain of its bucket once.
Chains(c, w) ==
  /\ \A b \in Buckets : \A i \in DOMAIN c[b] :
       /\ c[b][i] \in DOMAIN w /\ Bucket[w[c[b][i]].name] = b
       /\ w[c[b][i]].link = IF i = Len(c[b]) THEN 0 ELSE c[b][i + 1]
       /\ \A j \in DOMAIN c[b] : c[b][i] = c[b][j] => i = j
  /\ \A h \in DOMAIN w : \E i \in DOMAIN c[Bucket[w[h].name]] : c[Bucket[w[h].name]][i] = h
  /\ \A h, g \in DOMAIN w : w[h].name = w[g].name => h = g

Listings == UNION {[1..n -> DOMAIN Resident] : n \in 0..Cardinality(DOMAIN Resident)}

\* The resident words have names of their own and form the chains of their buckets.
DictionaryAssumption ==
  /\ Bucket \in [Names -> Buckets]
  /\ Handles \subseteq Nat \ {0} /\ IsFiniteSet(Handles) /\ DOMAIN Resident \subseteq Handles
  /\ \A h \in DOMAIN Resident : Resident[h] \in [name : Names, link : {0} \cup DOMAIN Resident]
  /\ \E c \in [Buckets -> Listings] : Chains(c, Resident)
  /\ MaxSaves \in Nat

VARIABLES entries,  \* words_: handle -> [name, link, class, explicit]
          heads,  \* heads_: bucket -> handle or 0
          saves   \* property words saved by active calls, innermost last: [word, property]

dictionary == <<entries, heads, saves>>

Property(h) == [class |-> entries[h].class, explicit |-> entries[h].explicit, link |-> entries[h].link]
ButLast(q) == SubSeq(q, 1, Len(q) - 1)

\* The head of a bucket is the resident word no other is chained to.
DictionaryInit ==
  LET linked == {Resident[h].link : h \in DOMAIN Resident}
      first(b) == {h \in DOMAIN Resident \ linked : Bucket[Resident[h].name] = b}
  IN /\ entries = [h \in DOMAIN Resident |-> [name |-> Resident[h].name, link |-> Resident[h].link,
                                            class |-> "resident", explicit |-> FALSE]]
     /\ heads = [b \in Buckets |-> IF first(b) = {} THEN 0 ELSE CHOOSE h \in first(b) : TRUE]
     /\ saves = <<>>

\* The words of a bucket, in the order of its chain.
Chain(b) ==
  LET n == Cardinality(DOMAIN entries)
      upTo[k \in 0..n] ==
        IF k = 0 THEN IF heads[b] = 0 THEN <<>> ELSE <<heads[b]>>
        ELSE LET q == upTo[k - 1]
             IN IF q = <<>> \/ Len(q) <= k - 1 \/ entries[q[Len(q)]].link = 0 THEN q
                ELSE Append(q, entries[q[Len(q)]].link)
  IN upTo[n]

\* lookup(): the first word of the chain with the name, or 0.
Lookup(n) ==
  LET q == Chain(Bucket[n])
      named == {i \in DOMAIN q : entries[q[i]].name = n}
  IN IF named = {} THEN 0 ELSE q[CHOOSE i \in named : \A j \in named : i <= j]

New(n) == [name |-> n, link |-> 0, class |-> "undeclared", explicit |-> FALSE]

With(h, r) == [g \in DOMAIN entries \cup {h} |-> IF g = h THEN r ELSE entries[g]]

\* Mutation: the word is chained to the head of the bucket.
AppendedToHead(n, h) ==
  LET q == Chain(Bucket[n])
      W == With(h, New(n))
  IN IF q = <<>> THEN W ELSE [W EXCEPT ![q[1]].link = h]

\* The new word becomes the last of its chain.
Appended(n, h) ==
  LET q == Chain(Bucket[n])
      W == With(h, New(n))
  IN IF q = <<>> THEN W ELSE [W EXCEPT ![q[Len(q)]].link = h]

\* intern() of a name that is not there, given the four words at h.  With no storage, or
\* for a name that is there, it changes nothing.
Intern(n, h) ==
  /\ h \in Handles \ DOMAIN entries /\ Lookup(n) = 0
  /\ entries' = Appended(n, h)
  /\ heads' = [heads EXCEPT ![Bucket[n]] = IF @ = 0 THEN h ELSE @]
  /\ UNCHANGED saves

\* declare(): the class and the other flags go, the link stays.
Declare(h, explicit) ==
  /\ h \in DOMAIN entries
  /\ entries' = [entries EXCEPT ![h].class = "variable", ![h].explicit = explicit]
  /\ UNCHANGED <<heads, saves>>

\* exchange_binding_class(): of the property word only the class is taken.
Exchanged(h, property) == [entries EXCEPT ![h].class = property.class]

\* A call binds the word; the property word it had is kept for the return.
Install(h, class) ==
  /\ h \in DOMAIN entries /\ Len(saves) < MaxSaves
  /\ saves' = Append(saves, [word |-> h, property |-> Property(h)])
  /\ entries' = Exchanged(h, [class |-> class, explicit |-> FALSE, link |-> 0])
  /\ UNCHANGED heads

\* A return reinstates the innermost save.
Reinstate ==
  /\ saves # <<>>
  /\ LET s == saves[Len(saves)] IN entries' = Exchanged(s.word, s.property)
  /\ saves' = ButLast(saves)
  /\ UNCHANGED heads

\* SETPOP or an error abandons the saves.
Abandon == saves # <<>> /\ saves' = <<>> /\ UNCHANGED <<entries, heads>>

DictionaryNext ==
  \/ \E n \in Names, h \in Handles : Intern(n, h)
  \/ \E h \in Handles, explicit \in BOOLEAN : Declare(h, explicit)
  \/ \E h \in Handles, class \in {"variable", "undeclared"} : Install(h, class)
  \/ Reinstate \/ Abandon

DictionarySpec == DictionaryInit /\ [][DictionaryNext]_dictionary

---------------------------------------------------------------------------
(* Properties *)

\* Words, heads and links are handles of words in the dictionary.
DictionaryOK ==
  /\ DOMAIN entries \subseteq Handles
  /\ \A h \in DOMAIN entries : entries[h] \in [name : Names, link : {0} \cup DOMAIN entries,
                                           class : Classes, explicit : BOOLEAN]
  /\ heads \in [Buckets -> {0} \cup DOMAIN entries]
  /\ \A i \in DOMAIN saves : saves[i].word \in DOMAIN entries
  /\ Len(saves) <= MaxSaves

\* Every word is found by its name, in its own bucket and at its own handle: no word is
\* entered twice, lost behind a link that was overwritten, or chained into a circle, even
\* when words are entered while calls hold property words of the chain.
Reachable == \A h \in DOMAIN entries : Lookup(entries[h].name) = h

\* No word moves: the first word of a bucket stays the first and what follows a word goes
\* on following it, so a name that was found is found after as many steps.
ChainsGrow == [][/\ \A b \in Buckets : heads[b] # 0 => heads'[b] = heads[b]
                 /\ \A h \in DOMAIN entries : entries[h].link # 0 => entries'[h].link = entries[h].link]_dictionary

\* A resident word, or one declared with VARS, keeps its flag through the calls that bind
\* it: only a declaration changes it.
FlagsSurvive ==
  [][\A h \in DOMAIN entries :
       entries'[h].explicit # entries[h].explicit => saves' = saves /\ entries'[h].class = "variable"]_dictionary

\* A name is found at the handle of its word, chains only grow at their ends and only a
\* declaration changes the flag of a word (intern, lookup, exchange_binding_class).
NamesReachable == [](DictionaryOK /\ Reachable) /\ ChainsGrow /\ FlagsSurvive
=============================================================================
