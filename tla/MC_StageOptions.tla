-------------------------- MODULE MC_StageOptions --------------------------
(* Small instance of StageOptions for TLC: every ON_ERROR text of at most  *)
(* three tokens over a set that holds each keyword, lower-case and         *)
(* mixed-case spellings, digits, "%" and "+".                              *)
EXTENDS StageOptions, TLC

MCOnErrorTokens ==
    {W("CONTINUE"), L("CONTINUE"), W("SKIP_FILE"), Word("SKIP_FILE", "mixed"),
     W("SKIP_FILE_"), L("SKIP_FILE_"), W("ABORT_STATEMENT"),
     Sym("0"), Sym("5"), Sym("%"), Sym("+")}
MCOnErrorTexts == SeqOf(MCOnErrorTokens, 3)

MCFormatTexts ==
    {<<L("CSV")>>, <<Word("TABSEPARATED", "mixed")>>, <<W("JSON")>>, <<W("CSVX")>>}
MCCompressionTexts ==
    {<<W("gzip")>>, <<Word("raw_deflate", "mixed")>>, <<L("rawdeflate")>>, <<L("gz")>>}
=============================================================================
