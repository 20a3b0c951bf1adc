-------------------------- MODULE MCCaptureScanner --------------------------
(* CaptureScanner on every concatenation of up to three fragments, the     *)
(* openings, closings, escapes and references of a template, and of four   *)
(* of the fragments that open and close something.                         *)
EXTENDS CaptureScanner

Fragments ==
    {<<"[">>, <<"]">>, <<"^">>, <<"[", "^", "]">>, <<"[", ":", "a", ":", "]">>,
     <<"[", "[", ":", "]">>, <<"\\">>, <<"\\", "Q">>, <<"\\", "E">>, <<"a">>,
     <<"$", "1">>, <<"$", "2">>, <<"$", "1", "2">>, <<"$", "0">>, <<"$", "{">>, <<"$", "a">>}

Brackets ==
    {<<"[">>, <<"]">>, <<"[", "^", "]">>, <<"[", ":", "a", ":", "]">>,
     <<"[", "[", ":", "]">>, <<"\\">>, <<"\\", "Q">>, <<"$", "1">>}

MCPatterns ==
    {FlattenSeq(s) : s \in [1..4 -> Brackets] \cup UNION {[1..n -> Fragments] : n \in 0..3}}
=============================================================================
