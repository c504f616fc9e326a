------------------------------- MODULE Endpoints -------------------------------
(***************************************************************************)
(* The text of an endpoint (core.cpp): parse_endpoint, and origin, which   *)
(* the transport puts in front of the target of a request.  A text is a    *)
(* sequence of tokens; "://", "/" and ":" are tokens of their own, a host  *)
(* or a segment is any other, and a number is one of Number's.             *)
(***************************************************************************)
EXTENDS Integers, Sequences, SequencesExt

CONSTANTS
  Token,       (* what texts are made of                                     *)
  Number       (* what from_chars reads in a text: token -> value            *)

Schemes == {"http", "https"}
Marks == {"://", "/", ":"}

\* Schemes and marks are tokens, and marks are not numbers.
ASSUME TokenAssumption ==
  /\ Schemes \cup Marks \subseteq Token
  /\ \A token \in DOMAIN Number : token \in Token \ Marks /\ Number[token] \in Nat

MaxPort == 65535
DefaultPort(scheme) == IF scheme = "https" THEN 443 ELSE 80

Nowhere == [valid |-> FALSE]

\* port_text, which the caller has found after the only colon.
PortOf(tokens) ==
  IF Len(tokens) = 1 /\ tokens[1] \in DOMAIN Number THEN Number[tokens[1]] ELSE MaxPort + 1

Located(scheme, host, port, base) ==
  [valid |-> TRUE, scheme |-> scheme, host |-> host, port |-> port, base |-> base]

\* The part between the scheme and the path.
ParseAuthority(scheme, authority, base) ==
  LET colon == SelectInSeq(authority, LAMBDA token : token = ":")
      port == PortOf(SubSeq(authority, colon + 1, Len(authority)))
  IN  IF authority = <<>> THEN Nowhere
      ELSE IF colon = 0 \/ SelectLastInSeq(authority, LAMBDA token : token = ":") # colon
        THEN Located(scheme, authority, DefaultPort(scheme), base)
      ELSE IF port > MaxPort THEN Nowhere
      ELSE Located(scheme, SubSeq(authority, 1, colon - 1), port, base)

ParseEndpoint(text) ==
  LET rest == SubSeq(text, 3, Len(text))
      slash == SelectInSeq(rest, LAMBDA token : token = "/")
      split == IF slash = 0 THEN Len(rest) + 1 ELSE slash
  IN  IF Len(text) < 2 \/ text[2] # "://" \/ text[1] \notin Schemes THEN Nowhere
      ELSE ParseAuthority(text[1], SubSeq(rest, 1, split - 1), SubSeq(rest, split, Len(rest)))

\* to_string of a port.
PortText(port) == CHOOSE token \in DOMAIN Number : Number[token] = port

\* Mutant of Authority: the default port of either scheme is left out.
AuthorityAnyDefault(e) ==
  IF \E scheme \in Schemes : e.port = DefaultPort(scheme)
    THEN e.host
    ELSE e.host \o <<":", PortText(e.port)>>

Authority(e) ==
  IF e.port = DefaultPort(e.scheme) THEN e.host ELSE e.host \o <<":", PortText(e.port)>>

Origin(e) == <<e.scheme, "://">> \o Authority(e)
=============================================================================
