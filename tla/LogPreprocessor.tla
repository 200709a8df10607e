--------------------------- MODULE LogPreprocessor ---------------------------
(***************************************************************************)
(* preprocess_logs and make_fingerprint of controller/log_preprocessor.py. *)
(* A raw line is a timestamp, or none, and a sequence of words; a word is  *)
(* what a pattern can recognise, and a character of the budget.  What is   *)
(* sent to the agents is a sequence of words and newlines.  The loops are  *)
(* folds, which can be proved about.                                       *)
(***************************************************************************)
EXTENDS Naturals, SequencesExt

CONSTANTS
  Words,      \* the words of a log
  Signals,    \* the words that _KEEP_PATTERN finds
  Noises,     \* the words that _NOISE_PATTERN finds
  NoStamp,    \* no timestamp that _TIMESTAMP_PATTERN knows
  Newline, Truncated, NoLogs,   \* the marks put into the excerpt
  MaxLines,   \* MAX_LINES
  MaxChars    \* MAX_CHARS, in words

ASSUME LogAssumption ==
  /\ Signals \subseteq Words /\ Noises \subseteq Words
  /\ MaxLines \in Nat \ {0} /\ MaxChars \in Nat \ {0}

Mentions(words, class) == \E i \in DOMAIN words : words[i] \in class
IsSignal(words) == Mentions(words, Signals)

UpTo(s, n) == SubSeq(s, 1, IF Len(s) < n THEN Len(s) ELSE n)

\* The line as it was written, and whether anything is left after strip().
Whole(line) == IF line.stamp = NoStamp THEN line.text ELSE <<line.stamp>> \o line.text

\* Mutant: only a timestamp at the end of the line would go.
StripNothing(line) == Whole(line)

\* The timestamp goes and with it the word behind it, meant to be the level.
Strip(line) ==
  IF line.stamp = NoStamp \/ line.text = <<>> THEN line.text ELSE Tail(line.text)

\* One turn of the loop: nothing, noise and what was kept last are dropped.
KeepLine(kept, line) ==
  LET text == Strip(line)
  IN IF text = <<>> \/ Mentions(text, Noises) \/ (kept # <<>> /\ text = Last(kept))
     THEN kept ELSE Append(kept, text)

Kept(raw) == FoldLeft(KeepLine, <<>>, raw)

Written(raw) == SelectSeq([i \in DOMAIN raw |-> Whole(raw[i])], LAMBDA words : words # <<>>)

\* Without a line that is kept the raw ones are taken, timestamps included.
Cleaned(raw) == IF Kept(raw) # <<>> THEN Kept(raw) ELSE UpTo(Written(raw), MaxLines)

\* Mutant: the lines stay in their order.
InOrder(lines) == lines

\* signal_lines and other_lines.
AddSignal(chosen, words) == IF IsSignal(words) THEN Append(chosen, words) ELSE chosen
AddOther(chosen, words) == IF IsSignal(words) THEN chosen ELSE Append(chosen, words)

SignalLines(lines) == FoldLeft(AddSignal, <<>>, lines)
OtherLines(lines) == FoldLeft(AddOther, <<>>, lines)

SignalsFirst(lines) == SignalLines(lines) \o OtherLines(lines)

JoinLine(joined, words) ==
  IF joined = <<>> THEN words ELSE joined \o <<Newline>> \o words

Joined(lines) == FoldLeft(JoinLine, <<>>, lines)

Excerpt(lines) ==
  LET result == Joined(UpTo(lines, MaxLines))
  IN IF Len(result) > MaxChars
     THEN UpTo(result, MaxChars) \o <<Newline, Truncated>> ELSE result

Blank(raw) == \A i \in DOMAIN raw : Whole(raw[i]) = <<>>

preprocess_logs(raw, error_state) ==
  IF Blank(raw) THEN <<NoLogs, error_state>>
  ELSE Excerpt(SignalsFirst(Cleaned(raw)))

\* The hash is taken for collision-free.
make_fingerprint(cleaned_logs, error_state) == <<error_state, cleaned_logs>>
=============================================================================
