---------------------------- MODULE StageOptions ----------------------------
(***************************************************************************)
(* The parsers of a stage's option values, src/meta/types/src/user_stage.rs:*)
(* FromStr of StageFileCompression (108-127), StageFileFormatType          *)
(* (147-164) and OnErrorMode (214-234).  The state is one option clause of *)
(* a CREATE STAGE or COPY statement: the three texts the user wrote and    *)
(* what each parser returned for its text.                                 *)
(*                                                                         *)
(* A text is a sequence of tokens.  A token is a word in some letter case  *)
(* ("lower", "upper", "mixed") or a symbol ("5", "0", "%", "+") that has   *)
(* no case.  No word begins with "_" and no word ends inside another, so   *)
(* two token sequences spell the same string exactly when they are equal,  *)
(* and an occurrence of the string "SKIP_FILE_" in a text is an occurrence *)
(* of the token SKIP_FILE_.                                                *)
(***************************************************************************)
EXTENDS Naturals, Sequences, SequencesExt

CONSTANTS
    OnErrorTexts,      \* the ON_ERROR texts a statement may carry
    FormatTexts,       \* the TYPE texts of a FILE_FORMAT clause
    CompressionTexts,  \* the COMPRESSION texts of a FILE_FORMAT clause
    Err,               \* the Err(String) result of a parser
    NotParsed          \* an option not handed to its parser yet

Cases == {"lower", "upper", "mixed"}
Symbols == {"0", "5", "%", "+"}
DigitSymbols == {"0", "5"}
DigitValue == [d \in DigitSymbols |-> IF d = "0" THEN 0 ELSE 5]

Word(w, c) == [w |-> w, case |-> c]
W(w) == Word(w, "upper")
L(w) == Word(w, "lower")
Sym(x) == Word(x, "none")

(* str::to_uppercase and str::to_lowercase: every letter changes case, a  *)
(* symbol is left alone.                                                   *)
ToUppercase(s) ==
    [k \in DOMAIN s |-> IF s[k].case = "none" THEN s[k] ELSE [s[k] EXCEPT !.case = "upper"]]
ToLowercase(s) ==
    [k \in DOMAIN s |-> IF s[k].case = "none" THEN s[k] ELSE [s[k] EXCEPT !.case = "lower"]]

(* v.replace("SKIP_FILE_", ""): drops every occurrence of the token.        *)
ReplaceSkipFile(s) == SelectSeq(s, LAMBDA t : t # W("SKIP_FILE_"))

(* str::parse::<u64>: an optional "+", then one or more decimal digits.    *)
(* The values reachable here are far below 2^64, so the overflow error of  *)
(* the real parser never arises.                                           *)
U64Digits(s) == IF s # <<>> /\ s[1] = Sym("+") THEN Tail(s) ELSE s
ParseU64(s) ==
    LET ds == U64Digits(s) IN
    IF ds # <<>> /\ \A k \in DOMAIN ds : ds[k] \in {Sym(d) : d \in DigitSymbols}
    THEN FoldLeft(LAMBDA acc, t : 10 * acc + DigitValue[t.w], 0, ds)
    ELSE Err

(* OnErrorMode; SkipFileNum carries its count in n. *)
Mode(m) == [mode |-> m, n |-> 0]
SkipFileNum(v) == [mode |-> "SkipFileNum", n |-> v]
OnErrorModes ==
    [mode : {"None", "Continue", "SkipFile", "AbortStatement", "SkipFileNum"}, n : Nat]

(* The same parser with the match arms compared against the text as       *)
(* written, without to_uppercase.                                          *)
OnErrorFromStrCaseSensitive(s) ==
    CASE s = <<>>                -> Mode("None")
      [] s = <<W("CONTINUE")>>   -> Mode("Continue")
      [] s = <<W("SKIP_FILE")>>  -> Mode("SkipFile")
      [] OTHER -> LET v == ParseU64(ReplaceSkipFile(s))
                  IN IF v = Err THEN Err ELSE SkipFileNum(v)

(* OnErrorMode::from_str (214-234). *)
OnErrorFromStr(s) ==
    LET u == ToUppercase(s) IN
    CASE u = <<>>                -> Mode("None")
      [] u = <<W("CONTINUE")>>   -> Mode("Continue")
      [] u = <<W("SKIP_FILE")>>  -> Mode("SkipFile")
      [] OTHER -> LET v == ParseU64(ReplaceSkipFile(u))
                  IN IF v = Err THEN Err ELSE SkipFileNum(v)

(* StageFileFormatType::from_str (147-164): the "not implemented yet" and  *)
(* the "Unknown" error are both Err.                                       *)
FormatOf == [CSV |-> "Csv", TSV |-> "Tsv", TABSEPARATED |-> "Tsv",
             NDJSON |-> "NdJson", JSONEACHROW |-> "NdJson",
             PARQUET |-> "Parquet", XML |-> "Xml"]
(* The same parser with JSON accepted as the Json variant instead of      *)
(* answered "not implemented yet".                                          *)
FormatFromStrWithJson(s) ==
    LET u == ToUppercase(s) IN
    CASE Len(u) = 1 /\ u[1].w \in DOMAIN FormatOf -> FormatOf[u[1].w]
      [] Len(u) = 1 /\ u[1].w = "JSON"           -> "Json"
      [] OTHER                                    -> Err

FormatFromStr(s) ==
    LET u == ToUppercase(s) IN
    IF Len(u) = 1 /\ u[1].w \in DOMAIN FormatOf THEN FormatOf[u[1].w] ELSE Err

(* StageFileCompression::from_str (108-127). *)
CompressionOf == [auto |-> "Auto", gzip |-> "Gzip", bz2 |-> "Bz2",
                  brotli |-> "Brotli", zstd |-> "Zstd", deflate |-> "Deflate",
                  rawdeflate |-> "RawDeflate", raw_deflate |-> "RawDeflate",
                  lzo |-> "Lzo", snappy |-> "Snappy", xz |-> "Xz", none |-> "None"]
CompressionFromStr(s) ==
    LET l == ToLowercase(s) IN
    IF Len(l) = 1 /\ l[1].case = "lower" /\ l[1].w \in DOMAIN CompressionOf
    THEN CompressionOf[l[1].w] ELSE Err

VARIABLES
    clause,   \* the texts of the clause: [onError, format, compression]
    options   \* what each parser returned, or NotParsed

vars == <<clause, options>>

TypeOK ==
    /\ clause \in [onError : OnErrorTexts, format : FormatTexts,
                   compression : CompressionTexts]
    /\ options \in [onError : OnErrorModes \cup {Err, NotParsed},
                    format : Range(FormatOf) \cup {Err, NotParsed},
                    compression : Range(CompressionOf) \cup {Err, NotParsed}]

Init ==
    /\ clause \in [onError : OnErrorTexts, format : FormatTexts,
                   compression : CompressionTexts]
    /\ options = [onError |-> NotParsed, format |-> NotParsed,
                  compression |-> NotParsed]

(* Each option value is handed to its FromStr once. *)
ParseOnError ==
    /\ options.onError = NotParsed
    /\ options' = [options EXCEPT !.onError = OnErrorFromStr(clause.onError)]
    /\ UNCHANGED clause

ParseFormat ==
    /\ options.format = NotParsed
    /\ options' = [options EXCEPT !.format = FormatFromStr(clause.format)]
    /\ UNCHANGED clause

ParseCompression ==
    /\ options.compression = NotParsed
    /\ options' = [options EXCEPT !.compression = CompressionFromStr(clause.compression)]
    /\ UNCHANGED clause

Next == ParseOnError \/ ParseFormat \/ ParseCompression

Spec == Init /\ [][Next]_vars

-----------------------------------------------------------------------------
(***************************************************************************)
(* The grammar the code states: the comment at line 48 and the error       *)
(* message at line 227 list ON_ERROR = { CONTINUE | SKIP_FILE |            *)
(* SKIP_FILE_<num> | ABORT_STATEMENT }, keywords in any case, <num> a      *)
(* decimal number; the empty text is the default None.  ListedOnError is   *)
(* the mode a text denotes in that grammar, or Err.                        *)
(***************************************************************************)
IsNum(s) == s # <<>> /\ \A k \in DOMAIN s : s[k] \in {Sym(d) : d \in DigitSymbols}
NumValue(s) == FoldLeft(LAMBDA acc, t : 10 * acc + DigitValue[t.w], 0, s)

ListedOnError(s) ==
    LET u == ToUppercase(s) IN
    CASE u = <<>>                       -> Mode("None")
      [] u = <<W("CONTINUE")>>          -> Mode("Continue")
      [] u = <<W("SKIP_FILE")>>         -> Mode("SkipFile")
      [] u = <<W("ABORT_STATEMENT")>>   -> Mode("AbortStatement")
      [] u # <<>> /\ u[1] = W("SKIP_FILE_") /\ IsNum(Tail(u))
                                        -> SkipFileNum(NumValue(Tail(u)))
      [] OTHER                          -> Err

(* Every ON_ERROR keyword the grammar lists, in any letter case, except    *)
(* ABORT_STATEMENT (see OnErrorMatchesGrammar), and every format and      *)
(* compression name the error messages of lines 123 and 159 list, parses   *)
(* to the variant it names.                                                *)
ListedOptionsParse ==
    /\ LET t == clause.onError IN
         (options.onError # NotParsed /\ ListedOnError(t) \notin {Err, Mode("AbortStatement")})
            => options.onError = ListedOnError(t)
    /\ (options.format # NotParsed /\ Len(clause.format) = 1
          /\ clause.format[1].w \in DOMAIN FormatOf)
            => options.format = FormatOf[clause.format[1].w]
    /\ (options.compression # NotParsed /\ Len(clause.compression) = 1
          /\ clause.compression[1].w \in DOMAIN CompressionOf)
            => options.compression = CompressionOf[clause.compression[1].w]

(* OnErrorMode::from_str parses exactly the grammar it states: every      *)
(* listed value, ABORT_STATEMENT included (the enum has an AbortStatement  *)
(* variant and the error message offers it), to the mode it names, and     *)
(* every other text to the error "must one of { ... }".                    *)
OnErrorMatchesGrammar ==
    options.onError # NotParsed => options.onError = ListedOnError(clause.onError)
=============================================================================
