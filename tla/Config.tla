-------------------------------- MODULE Config --------------------------------
(***************************************************************************)
(* The settings of the debugger (class Config): a map in memory, which     *)
(* every change writes to ~/.config/.fdbg.rc and the next start reads.     *)
(*                                                                         *)
(* A value is a string, taken as the sequence of its words: `operator>>`   *)
(* cuts the file at white space, so the words are all that a value is      *)
(* after it was written and read.  The file is the sequence of its words.  *)
(***************************************************************************)
EXTENDS Integers, SequencesExt

CONSTANTS
    Order,         \* words that can be a key, as std::sort puts them
    Number         \* what std::stoi makes of the words that start with a digit

ASSUME OrderAssumption == Order \in Seq(ToSet(Order))

VARIABLES
    config_,       \* from keys to values
    file           \* .fdbg.rc

configVars == <<config_, file>>

-----------------------------------------------------------------------------
Empty == [key \in {} |-> <<>>]

Values == Seq(ToSet(Order))

\* What save writes: a line for each key, in order.  The end of a line is one
\* more white space.
Saved(config) ==
    LET Line(key) == IF key \in DOMAIN config THEN <<key>> \o config[key] ELSE <<>>
    IN  FlattenSeq([i \in 1 .. Len(Order) |-> Line(Order[i])])

\* What load makes of a file: its words in pairs.  Of two pairs with the same
\* key the later one counts, and a last word without a partner is dropped.
Loaded(words) ==
    LET Pairs == 1 .. Len(words) \div 2
        Latest(key) == CHOOSE i \in Pairs :
                        /\ words[2 * i - 1] = key
                        /\ \A j \in Pairs : words[2 * j - 1] = key => j <= i
    IN  [key \in {words[2 * i - 1] : i \in Pairs} |-> <<words[2 * Latest(key)]>>]

GetStr(config, key) == IF key \in DOMAIN config THEN config[key] ELSE <<>>

\* std::stoi throws invalid_argument, which get_int lets through.
IntThrows(config, key) ==
    /\ key \in DOMAIN config
    /\ config[key] = <<>> \/ Head(config[key]) \notin DOMAIN Number

GetInt(config, key) ==
    IF key \in DOMAIN config THEN Number[Head(config[key])] ELSE 0

GetBool(config, key) == GetStr(config, key) = <<"true">>

Set(config, key, value) ==
    [k \in DOMAIN config \cup {key} |-> IF k = key THEN value ELSE config[k]]

Without(config, keys) == [k \in DOMAIN config \ keys |-> config[k]]

-----------------------------------------------------------------------------
ConfigInit == config_ = Empty /\ file = <<>>

Load == config_' = Loaded(file) /\ UNCHANGED file

MutSaveAs(config) == config_' = config /\ file' = Saved(config_)
\* set and remove save at once.
SaveAs(config) == config_' = config /\ file' = Saved(config)

\* The process ends in save, between the truncation of the file and the end
\* of ~ofstream, which writes the buffer.
SaveCut(config) == config_' = config /\ file' = <<>>

\* A value that the file can carry.
OneWord(config) == \A key \in DOMAIN config : Len(config[key]) = 1
=============================================================================
