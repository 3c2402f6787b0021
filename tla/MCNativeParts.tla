----------------------------- MODULE MCNativeParts -----------------------------
(* The frame store, the dictionary and the reader of the hybrid runtime, each *)
(* on its own, in one run: they share no state, so a behaviour is of one part *)
(* and the others rest.                                                       *)
EXTENDS NativeFrames, NativeDictionary, TLC

VARIABLES part,
          calls, held, most, failed,                                 \* NativeFrames with a limit
          text, fed, utf8, input, mode, spelling, line, column,      \* NativeReader
          start, eof, discarding, tokens, waiting

\* Callees with up to three words: every mix of arguments and results.
Slots == {[argument |-> a, result |-> r] : a, r \in BOOLEAN}
MCShapes == {<<>>} \cup {<<s>> : s \in Slots} \cup {<<s, t>> : s, t \in Slots}
            \cup {<<s, t, u>> : s \in {[argument |-> TRUE, result |-> FALSE]},
                                t, u \in {[argument |-> FALSE, result |-> FALSE],
                                          [argument |-> TRUE, result |-> FALSE]}}

\* A limit on the number of calls instead of their words.
Limited == INSTANCE NativeFrames WITH
  Capacity <- 9, MaxArguments <- 2, Limit <- 2,
  frames <- calls, words <- held, peak <- most, exhausted <- failed

\* Two resident words collide; a third name collides with them, a fourth does not.
MCNames == {"hd", "tl", "x", "y"}
MCBucket == [n \in MCNames |-> IF n = "y" THEN "odd" ELSE "even"]
MCHandles == 1..4
MCResident == (2 :> [name |-> "hd", link |-> 1]) @@ (1 :> [name |-> "tl", link |-> 0])

ASSUME DictionaryAssumption

Bytes == {"a", "1", "+", ".", "$", "(", ")", " ", "nl", "tab", "cr", "lead", "cont"}
ShortTexts == UNION {[1..n -> Bytes] : n \in 0..3}

\* Longer ones: numbers with everything that may go on with them, two lines with a
\* refused token, characters of two bytes cut by the end of a line or of the text.
Numbers == [1..5 -> {"1", ".", "$", "+"}]
Lines == {<<"a">> \o s \o <<"nl", "(">> : s \in [1..3 -> {")", "cr", "a", "nl"}]}
Cyrillic == [1..4 -> {"lead", "cont", "a", "nl"}]

ReaderTexts == ShortTexts \cup Numbers \cup Lines \cup Cyrillic

Reader == INSTANCE NativeReader WITH Texts <- ReaderTexts, MaxDigits <- 3

limited == <<calls, held, most, failed>>
reader == <<text, fed, utf8, input, mode, spelling, line, column, start, eof, discarding, tokens, waiting>>

PartsInit == /\ part \in {"frames", "limited", "dictionary", "reader"}
             /\ Init /\ Limited!Init /\ DictionaryInit /\ Reader!Init
             /\ part # "reader" => text = <<>>

ReaderNext == part = "reader" /\ Reader!Next /\ UNCHANGED <<part, vars, limited, dictionary>>

PartsNext == \/ part = "frames" /\ Next /\ UNCHANGED <<part, limited, dictionary, reader>>
             \/ part = "limited" /\ Limited!Next /\ UNCHANGED <<part, vars, dictionary, reader>>
             \/ part = "dictionary" /\ DictionaryNext /\ UNCHANGED <<part, vars, limited, reader>>
             \/ ReaderNext

all == <<part, vars, limited, dictionary, reader>>

\* Only the reader is driven: the session calls next() until it needs input, and the
\* shell feeds until the text ends.
PartsSpec == PartsInit /\ [][PartsNext]_all /\ WF_all(ReaderNext)

---------------------------------------------------------------------------
(* Properties: those of the modules, for the part they are about *)

\* Of the words of a rebuild only one goes unwatched, and with a limit on calls the ledger
\* is kept as well (rebuild_arguments, enter_frame).
OvershootUnread == OvershootOnlyUnread /\ []Limited!LedgerBalanced

\* The tokens delivered do not depend on how the text was cut, and a text that is fed to its
\* end is delivered to its end (NativeReader::next).
TextsDelivered == /\ [](part = "reader" => Reader!TypeOK /\ Reader!SplitIndependent)
                  /\ part = "reader" => Reader!AllDelivered
=============================================================================
