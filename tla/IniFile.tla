------------------------------- MODULE IniFile -------------------------------
(***************************************************************************)
(* iniparser.c: a configuration file read line by line into a dictionary.  *)
(*                                                                         *)
(* A text is the sequence of its tokens: the brackets, "=", "#" (which     *)
(* stands for ';' as well), the quote, and words, which hold none of       *)
(* these; blanks are left out.  A physical line is a record                *)
(*   text  : its tokens                                                    *)
(*   more  : it ends in a backslash                                        *)
(*   fits  : it fits the line buffer with its newline                      *)
(* A last line of one letter and no newline has no text: the loop goes     *)
(* past it as past a blank one (iniparser.c 751).  Two words that meet     *)
(* where a line is continued are kept apart by a blank; without it they    *)
(* would be one word.                                                      *)
(* A reader is a record [dict, section, key text so far, errs, status].    *)
(***************************************************************************)
EXTENDS Dictionary

CONSTANTS
  Token,       \* the tokens there are
  LowerCase,   \* the words that differ from their lower case -> it
  Initial,     \* the words of more than one letter -> the first, as a word
  Yes, No,     \* words with a first letter of yes, true, 1; of no, false, 0
  Number       \* the words that are numbers -> the number

Null == <<"NULL pointer">>   \* a value no line yields
Absent == <<"absent">>       \* INI_INVALID_KEY

ASSUME IniAssumption ==
  /\ {"NULL pointer", "absent"} \cap Token = {}   \* no file says these
  /\ \A w \in DOMAIN Initial : Initial[w] \notin DOMAIN Initial

(* strlwc, the length apart. *)
Lower(text) ==
  [i \in DOMAIN text |-> IF text[i] \in DOMAIN LowerCase THEN LowerCase[text[i]]
                         ELSE text[i]]

FirstLetter(word) == IF word \in DOMAIN Initial THEN Initial[word] ELSE word

(* The longest prefix without a token of the set: sscanf's %[^...]. *)
UpTo(text, stop) ==
  LET i == SelectInSeq(text, LAMBDA t : t \in stop)
  IN IF i = 0 THEN text ELSE SubSeq(text, 1, i - 1)

After(text, t) == SubSeq(text, SelectInSeq(text, LAMBDA u : u = t) + 1, Len(text))

-----------------------------------------------------------------------------
(* iniparser_line, on a text that is not empty.                            *)
IsComment(text) == text[1] = "#"
IsHeader(text) == text[1] = "[" /\ Last(text) = "]" /\ Len(text) > 1
IsPair(text) == "=" \in Range(text) /\ text[1] # "="

(* The name between the brackets.  "[]", the one line modelled that names  *)
(* nothing, has sscanf leave the section alone, but strlwc, given the      *)
(* length of the line, cut it down to one letter.                          *)
Section(text, section) ==
  LET name == UpTo(Tail(text), {"]"})
  IN IF name # <<>> THEN Lower(name)
     ELSE IF section = <<>> THEN section
     ELSE <<FirstLetter(section[1])>>

Key(text) == Lower(UpTo(text, {"="}))

(* A quoted value may hold a '#'; any other ends at the first.          *)
Value(text) ==
  LET value == After(text, "=")
  IN IF value = <<>> THEN value
     ELSE IF value[1] = "quote" /\ UpTo(Tail(value), {"quote"}) # <<>>
     THEN UpTo(Tail(value), {"quote"})
     ELSE IF UpTo(value, {"#"}) = <<"quote", "quote">> THEN <<>>
     ELSE UpTo(value, {"#"})

(* The key of an entry is "section:key", that of a section its name.       *)
EntryKey(section, key) == section \o <<":">> \o key

IniparserLine(st, text) ==
  IF text = <<>> \/ IsComment(text) THEN st
  ELSE IF IsHeader(text)
  THEN LET section == Section(text, st.section)
       IN [st EXCEPT !.section = section,
                     !.dict = DictionarySet(@, section, Null)]
  ELSE IF IsPair(text)
  THEN [st EXCEPT !.dict = DictionarySet(@, EntryKey(st.section, Key(text)), Value(text))]
  ELSE [st EXCEPT !.errs = @ + 1]

(* One turn of iniparser_load's loop.  A line that ends in a backslash     *)
(* waits for the next one; a line that does not fit ends the loading.      *)
(* First a mutant that begins every line with an empty buffer.             *)
Reader == [dict |-> DictionaryNew, section |-> <<>>, held |-> <<>>, errs |-> 0,
           fits |-> TRUE]

TakeLineAlone(st, line) ==
  IF ~line.fits THEN [st EXCEPT !.fits = FALSE]
  ELSE IF line.more THEN [st EXCEPT !.held = line.text]
  ELSE IniparserLine([st EXCEPT !.held = <<>>], line.text)

TakeLine(st, line) ==
  IF ~line.fits THEN [st EXCEPT !.fits = FALSE]
  ELSE IF line.more THEN [st EXCEPT !.held = @ \o line.text]
  ELSE IniparserLine([st EXCEPT !.held = <<>>], st.held \o line.text)

(* What iniparser_load returns at the end of the file: the dictionary, or  *)
(* NULL after any error.  First a mutant that overlooks errors.            *)
LoadedAnyway(st) == st.fits
Loaded(st) == st.fits /\ st.errs = 0

-----------------------------------------------------------------------------
(* iniparser_getstring; iniparser_getboolean by the first letter, a value  *)
(* with any other being as good as none; iniparser_getint by strtol, for   *)
(* which a word is 0.  A key that is there without a value has a NULL      *)
(* pointer.                                                                *)
GetString(d, key, def) == DictionaryGet(d, Lower(key), def)

GetBoolean(d, key, notfound) ==
  LET value == GetString(d, key, Absent)
  IN IF value \in {Absent, <<>>} \/ value[1] \notin Yes \cup No THEN notfound
     ELSE value[1] \in Yes

GetInt(d, key, notfound) ==
  LET value == GetString(d, key, Absent)
  IN IF value = Absent THEN notfound
     ELSE IF value = <<>> \/ value[1] \notin DOMAIN Number THEN 0
     ELSE Number[value[1]]
=============================================================================
