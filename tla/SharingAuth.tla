---------------------------- MODULE SharingAuth ----------------------------
(***************************************************************************)
(* The authentication middleware of the sharing endpoint,                  *)
(* src/query/sharing-endpoint/src/middlewares.rs.  SharingAuth wraps the   *)
(* share endpoint (transform, 9-15); each request is handled by            *)
(* SharingAuthImpl::call (27-54) in a task of its own: the token of the    *)
(* Authorization header is decoded and attached as Credentials, a missing  *)
(* Content-Type becomes application/json, and the request goes on to the   *)
(* wrapped endpoint, whose Ok or Err is passed back.                       *)
(*                                                                         *)
(* A header value is Absent, Opaque (bytes that are not visible ASCII, so  *)
(* to_str fails), or the sequence of the parts split(" ") cuts it into.    *)
(* A part is a scheme word, Empty (the empty string between two spaces),   *)
(* Enc(t) (the base64 text of the UTF-8 token t), NonUtf8 (base64 of bytes *)
(* that are not UTF-8) or Junk (not base64).                               *)
(***************************************************************************)
EXTENDS Naturals, Sequences

CONSTANTS
    Requests,      \* requests in flight
    Tokens,        \* non-empty tokens a client may send
    AuthHeaders,   \* the Authorization values a client may send
    ContentTypes,  \* Content-Type values a client may send, or Absent
    Absent,
    Opaque,
    None

Part(k) == [kind |-> k, tok |-> None]
Enc(t) == [kind |-> "Enc", tok |-> t]
EmptyToken == ""
Schemes == {Part("Basic"), Part("Bearer")}
Parts == Schemes \cup {Part(k) : k \in {"Empty", "NonUtf8", "Junk"}} \cup {Enc(t) : t \in Tokens}
Json == "application/json"

(* A header value is missing, not visible ASCII, or split into parts.      *)
ASSUME AuthHeadersAssumption == AuthHeaders \subseteq Seq(Parts) \cup {Absent, Opaque}

(* The names the model gives the outcomes of decoding are not tokens.      *)
ASSUME TokensAssumption == Tokens \cap {"Panic", "Utf8Error", "Base64Error"} = {}

(* A request as the wrapped endpoint receives it. *)
Forwarded == [token : Tokens \cup {EmptyToken}, contentType : ContentTypes \cup {Json}]

(* base64::decode, then String::from_utf8, of one part: the token, or the  *)
(* step that fails.                                                        *)
DecodeToken(p) ==
    CASE p.kind = "Empty"   -> EmptyToken
      [] p.kind = "Enc"     -> p.tok
      [] p.kind = "NonUtf8" -> "Utf8Error"
      [] OTHER              -> "Base64Error"

(* The header value's token, or the reason call panics, for a header part  *)
(* read at position idx (1-based) of the split.                            *)
HeaderTokenAt(h, idx) ==
    CASE h = Absent   -> "Panic"          \* get("Authorization").unwrap()
      [] h = Opaque   -> "Panic"          \* to_str().unwrap()
      [] Len(h) < idx -> "Panic"          \* auth_header[1] out of bounds
      [] DecodeToken(h[idx]) \in {"Utf8Error", "Base64Error"} -> "Panic"
      [] OTHER        -> DecodeToken(h[idx])

(* call with a decode that falls back to the empty token,                  *)
(* unwrap_or_default, instead of unwrap.                                   *)
HeaderTokenLenient(h) ==
    CASE h \in {Absent, Opaque} \/ Len(h) < 2 -> "Panic"
      [] DecodeToken(h[2]) \in {"Utf8Error", "Base64Error"} -> EmptyToken
      [] OTHER -> DecodeToken(h[2])

(* call, lines 31-35: split(" ") and take the part at index 1, the second. *)
HeaderToken(h) == HeaderTokenAt(h, 2)

VARIABLES
    header,       \* request -> its Authorization value
    contentType,  \* request -> its Content-Type, or Absent
    phase,        \* request -> "received", "forwarded", "panicked" or "responded"
    forwarded,    \* request -> what the wrapped endpoint got, or None
    response      \* request -> "Ok" or "Err" passed back, or None

vars == <<header, contentType, phase, forwarded, response>>

TypeOK ==
    /\ header \in [Requests -> AuthHeaders]
    /\ contentType \in [Requests -> ContentTypes \cup {Absent}]
    /\ phase \in [Requests -> {"received", "forwarded", "panicked", "responded"}]
    /\ forwarded \in [Requests -> Forwarded \cup {None}]
    /\ response \in [Requests -> {"Ok", "Err", None}]

Init ==
    /\ header \in [Requests -> AuthHeaders]
    /\ contentType \in [Requests -> ContentTypes \cup {Absent}]
    /\ phase = [r \in Requests |-> "received"]
    /\ forwarded = [r \in Requests |-> None]
    /\ response = [r \in Requests |-> None]

(* SharingAuthImpl::call up to the await of the wrapped endpoint (27-43).  *)
(* A failed unwrap panics: the task ends and no response is written.       *)
Call(r) ==
    LET tok == HeaderToken(header[r]) IN
    /\ phase[r] = "received"
    /\ IF tok = "Panic"
         THEN /\ phase' = [phase EXCEPT ![r] = "panicked"]
              /\ UNCHANGED forwarded
         ELSE /\ phase' = [phase EXCEPT ![r] = "forwarded"]
              /\ forwarded' = [forwarded EXCEPT ![r] =
                   [token |-> tok,
                    contentType |-> IF contentType[r] = Absent THEN Json ELSE contentType[r]]]
    /\ UNCHANGED <<header, contentType, response>>

(* The same step with the wrapped endpoint's result unwrapped: an Err      *)
(* panics instead of being passed back.                                    *)
CompleteUnwrap(r) ==
    /\ phase[r] = "forwarded"
    /\ \E res \in {"Ok", "Err"} :
          IF res = "Ok"
            THEN /\ response' = [response EXCEPT ![r] = res]
                 /\ phase' = [phase EXCEPT ![r] = "responded"]
            ELSE /\ phase' = [phase EXCEPT ![r] = "panicked"]
                 /\ UNCHANGED response
    /\ UNCHANGED <<header, contentType, forwarded>>

(* The wrapped endpoint returns; call passes its Ok or Err back (43-53). *)
Complete(r) ==
    /\ phase[r] = "forwarded"
    /\ \E res \in {"Ok", "Err"} : response' = [response EXCEPT ![r] = res]
    /\ phase' = [phase EXCEPT ![r] = "responded"]
    /\ UNCHANGED <<header, contentType, forwarded>>

Next == \E r \in Requests : Call(r) \/ Complete(r)

(* The server runs each connection's task to its next await, and the      *)
(* wrapped endpoint returns.                                               *)
Fairness == \A r \in Requests : WF_vars(Call(r)) /\ WF_vars(Complete(r))

Spec == Init /\ [][Next]_vars /\ Fairness

-----------------------------------------------------------------------------
(* The header forms a client is meant to send: a scheme and the base64 of  *)
(* a token, separated by one space.                                        *)
WellFormed(h) == h \in {<<s, Enc(t)>> : s \in Schemes, t \in Tokens}

(* The wrapped endpoint only sees requests whose Authorization header held *)
(* a second part that decodes, as base64 and then UTF-8, to the token      *)
(* call attaches, with the client's Content-Type or application/json.      *)
ForwardedOnlyDecoded ==
    \A r \in Requests : forwarded[r] # None =>
       /\ header[r] \in Seq(Parts) /\ Len(header[r]) >= 2
       /\ header[r][2].kind \in {"Empty", "Enc"}
       /\ forwarded[r].token = DecodeToken(header[r][2])
       /\ forwarded[r].contentType = IF contentType[r] = Absent THEN Json ELSE contentType[r]

(* Every request with a well-formed header is eventually answered with the *)
(* wrapped endpoint's Ok or Err.                                           *)
WellFormedAnswered ==
    \A r \in Requests : WellFormed(header[r]) => <>(phase[r] = "responded")

(* Every request is eventually answered: a client whose header is missing  *)
(* or malformed gets an error response (401) rather than a dropped         *)
(* connection.                                                             *)
EveryRequestAnswered ==
    \A r \in Requests : <>(phase[r] = "responded")
=============================================================================
