-------------------------- MODULE SharingAuthProofs --------------------------
(***************************************************************************)
(* Proofs about the authentication middleware of SharingAuth, for every    *)
(* set of requests, tokens, header values and content types.               *)
(***************************************************************************)
EXTENDS SharingAuth, TLAPS

\* The strengthening of ForwardedOnlyDecoded that the proof carries: header
\* and content type never change, so the invariant is inductive once the
\* types are known.
IInv == TypeOK /\ ForwardedOnlyDecoded

-----------------------------------------------------------------------------
\* What decoding one part of a header gives.

LEMMA DecodeTokenType ==
    ASSUME NEW p \in Parts
    PROVE  DecodeToken(p) \in Tokens \cup {EmptyToken, "Utf8Error", "Base64Error"}
BY DEF DecodeToken, Parts, Part, Enc, Schemes

\* A header whose token call does not panic on is a sequence of parts with a
\* second part that decodes, and the token is what that part decodes to.
LEMMA HeaderTokenDecoded ==
    ASSUME NEW h \in AuthHeaders, HeaderToken(h) # "Panic"
    PROVE  /\ h \in Seq(Parts)
           /\ Len(h) >= 2
           /\ h[2].kind \in {"Empty", "Enc"}
           /\ HeaderToken(h) = DecodeToken(h[2])
           /\ HeaderToken(h) \in Tokens \cup {EmptyToken}
<1>1. h \notin {Absent, Opaque}
  BY DEF HeaderToken, HeaderTokenAt
<1>2. h \in Seq(Parts)
  BY <1>1, AuthHeadersAssumption
<1>3. Len(h) >= 2
  BY <1>1, <1>2 DEF HeaderToken, HeaderTokenAt
<1>4. h[2] \in Parts
  BY <1>2, <1>3
<1>5. DecodeToken(h[2]) \notin {"Utf8Error", "Base64Error"}
  BY <1>1, <1>3 DEF HeaderToken, HeaderTokenAt
<1>6. HeaderToken(h) = DecodeToken(h[2])
  BY <1>1, <1>3, <1>5 DEF HeaderToken, HeaderTokenAt
<1>7. DecodeToken(h[2]) \in Tokens \cup {EmptyToken}
  BY <1>4, <1>5, DecodeTokenType
<1>8. h[2].kind \in {"Empty", "Enc"}
  BY <1>4, <1>5 DEF DecodeToken, Parts, Part, Enc, Schemes
<1>. QED
  BY <1>2, <1>3, <1>6, <1>7, <1>8

-----------------------------------------------------------------------------
\* Every step keeps the state well typed.
LEMMA TypeStep == TypeOK /\ [Next]_vars => TypeOK'
<1> SUFFICES ASSUME TypeOK, [Next]_vars PROVE TypeOK'
  OBVIOUS
<1>1. ASSUME NEW r \in Requests, Call(r) PROVE TypeOK'
  <2>1. CASE HeaderToken(header[r]) = "Panic"
    BY <1>1, <2>1 DEF Call, TypeOK
  <2>2. CASE HeaderToken(header[r]) # "Panic"
    <3>1. HeaderToken(header[r]) \in Tokens \cup {EmptyToken}
      BY <2>2, HeaderTokenDecoded DEF TypeOK
    <3>. QED
      BY <1>1, <2>2, <3>1 DEF Call, TypeOK, Forwarded, Json
  <2>. QED
    BY <2>1, <2>2
<1>2. ASSUME NEW r \in Requests, Complete(r) PROVE TypeOK'
  BY <1>2 DEF Complete, TypeOK
<1>3. CASE UNCHANGED vars
  BY <1>3 DEF vars, TypeOK
<1>. QED
  BY <1>1, <1>2, <1>3 DEF Next

(* The middleware keeps its state well typed.                              *)
THEOREM TypeCorrect == Spec => []TypeOK
<1>1. Init => TypeOK
  BY DEF Init, TypeOK
<1>. QED
  BY <1>1, TypeStep, PTL DEF Spec

(* Only requests whose Authorization header held a second part that        *)
(* decodes to the attached token reach the wrapped endpoint (the run's     *)
(* ForwardedOnlyDecoded), for every set of headers a client may send.      *)
THEOREM ForwardedOnlyDecodedHolds == Spec => []ForwardedOnlyDecoded
<1>1. Init => IInv
  BY DEF Init, IInv, TypeOK, ForwardedOnlyDecoded
<1>2. IInv /\ [Next]_vars => IInv'
  <2> SUFFICES ASSUME IInv, [Next]_vars PROVE IInv'
    OBVIOUS
  <2>0. TypeOK'
    BY TypeStep DEF IInv
  <2>1. ASSUME NEW r \in Requests, Call(r) PROVE ForwardedOnlyDecoded'
    <3> SUFFICES ASSUME NEW q \in Requests, forwarded'[q] # None
                 PROVE  ForwardedOnlyDecoded!(q)'
      BY DEF ForwardedOnlyDecoded
    <3>1. CASE q # r
      BY <2>1, <3>1 DEF Call, IInv, TypeOK, ForwardedOnlyDecoded
    <3>2. CASE q = r /\ HeaderToken(header[r]) = "Panic"
      BY <2>1, <3>2 DEF Call, IInv, TypeOK, ForwardedOnlyDecoded
    <3>3. CASE q = r /\ HeaderToken(header[r]) # "Panic"
      <4>1. /\ header[r] \in Seq(Parts)
            /\ Len(header[r]) >= 2
            /\ header[r][2].kind \in {"Empty", "Enc"}
            /\ HeaderToken(header[r]) = DecodeToken(header[r][2])
        BY <3>3, HeaderTokenDecoded DEF IInv, TypeOK
      <4>. QED
        BY <2>1, <3>3, <4>1 DEF Call, IInv, TypeOK
    <3>. QED
      BY <3>1, <3>2, <3>3
  <2>2. ASSUME NEW r \in Requests, Complete(r) PROVE ForwardedOnlyDecoded'
    BY <2>2 DEF Complete, IInv, ForwardedOnlyDecoded
  <2>3. CASE UNCHANGED vars
    BY <2>3 DEF vars, IInv, TypeOK, ForwardedOnlyDecoded
  <2>. QED
    BY <2>0, <2>1, <2>2, <2>3 DEF Next, IInv
<1>. QED
  BY <1>1, <1>2, PTL DEF Spec, IInv
=============================================================================
