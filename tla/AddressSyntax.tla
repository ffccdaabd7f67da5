---------------------------- MODULE AddressSyntax ----------------------------
(* Mail addresses, as HeaderParsing reads them: addr-spec, angle-addr with *)
(* the obsolete route, mailbox, group and address list.                    *)
(*                                                                         *)
(* A mailbox is [name, local, domain] (Types::Mailbox with its AddrSpec),  *)
(* an address is [group, boxes] (Types::Address): a single mailbox has the *)
(* empty group name.                                                       *)
EXTENDS HeaderSyntax

AddrSpecOf(local, domain) == [local |-> local, domain |-> domain]
MailboxOf(name, spec) == [name |-> name, local |-> spec.local, domain |-> spec.domain]
AddressOf(group, boxes) == [group |-> group, boxes |-> boxes]

(* parseDotAtom, which starts with a ParserState of its own.  A dot that   *)
(* no atom follows is left alone.                                          *)
RECURSIVE DotAtomEnd(_, _)
DotAtomEnd(s, i) ==
  IF At(s, i) = "." /\ IsAText(At(s, i + 1)) THEN DotAtomEnd(s, AtomEnd(s, i + 1)) ELSE i

DotAtomFrom(s, from, st) ==
  LET end == AtomEnd(s, from)
  IN IF end = from THEN Fail(from, st)
     ELSE Okay(DotAtomEnd(s, end), Cut(s, from, DotAtomEnd(s, end)), st)

DotAtom(s, i, st) == DotAtomFrom(s, EatCFWS(s, i, Fresh(st.memo)).at, st)

(* The part of parseDomain after "[".                                      *)
RECURSIVE DomainLiteral(_, _, _, _)

LiteralPart(s, q) ==
  IF ~q.ok \/ (s[q.at - 1] = "[" /\ q.at > Len(s)) THEN Fail(q.at, q.st)
  ELSE IF s[q.at - 1] = "]" THEN q
  ELSE DomainLiteral(s, q.at, Append(q.val, "["), q.st)

DomainLiteral(s, i, val, st) == LiteralPart(s, Quoted(s, i, val, {"[", "]"}, st))

RootDot(s, d) ==
  IF d.ok /\ At(s, d.at) = "." THEN Okay(d.at + 1, Append(d.val, "."), d.st) ELSE d

DomainFrom(s, i, st) ==
  IF At(s, i) = "end" THEN Fail(i, st)
  ELSE IF At(s, i) = "[" THEN DomainLiteral(s, i + 1, <<>>, st)
  ELSE RootDot(s, DotAtom(s, i, st))

DomainAt(s, e) == DomainFrom(s, e.at, e.st)

Domain(s, i, st) == DomainAt(s, EatCFWS(s, i, st))

(* parseObsRoute: "@a,@b:", read and thrown away.                          *)
RECURSIVE ObsRoute(_, _, _)

BehindDomain(s, e) ==
  IF At(s, e.at) = "end" THEN Fail(e.at, e.st)
  ELSE IF s[e.at] = ":" THEN Okay(e.at + 1, <<>>, e.st)
  ELSE ObsRoute(s, IF s[e.at] = "," THEN e.at + 1 ELSE e.at, e.st)

DomainOfRoute(s, d) == IF d.ok THEN BehindDomain(s, EatCFWS(s, d.at, d.st)) ELSE Fail(d.at, d.st)

ObsRouteAt(s, e) ==
  IF At(s, e.at) = "," THEN ObsRoute(s, e.at + 1, e.st)
  ELSE IF At(s, e.at) = ":" THEN Okay(e.at + 1, <<>>, e.st)
  ELSE IF At(s, e.at) = "@" THEN DomainOfRoute(s, Domain(s, e.at + 1, e.st))
  ELSE Fail(e.at, e.st)

ObsRoute(s, i, st) == ObsRouteAt(s, EatCFWS(s, i, st))

(* parseAddrSpec: word *("." word) "@" domain, reading words and dots in   *)
(* any order.                                                              *)
RECURSIVE InAddrSpec(_, _, _, _)

DomainOfSpec(local, d) ==
  IF d.ok THEN [d EXCEPT !.val = AddrSpecOf(local, d.val)] ELSE Fail(d.at, d.st)

QuotesInSpec(s, local, q) ==
  IF q.ok THEN InAddrSpec(s, q.at, local \o q.val, q.st) ELSE Fail(q.at, q.st)

AtomInSpec(s, e, local, end) ==
  IF end > e.at THEN InAddrSpec(s, end, local \o Cut(s, e.at, end), e.st) ELSE Fail(e.at, e.st)

AddrSpecAt(s, e, local) ==
  LET c == At(s, e.at)
  IN IF c = "." THEN InAddrSpec(s, e.at + 1, Append(local, "."), e.st)
     ELSE IF c = "@" THEN DomainOfSpec(local, Domain(s, e.at + 1, e.st))
     ELSE IF c = "\"" THEN QuotesInSpec(s, local, QuotedString(s, e.at + 1, e.st))
     ELSE AtomInSpec(s, e, local, AtomEnd(s, e.at))

InAddrSpec(s, i, local, st) == AddrSpecAt(s, EatCFWS(s, i, st), local)

AddrSpec(s, i, st) == InAddrSpec(s, i, <<>>, st)

(* parseAngleAddr.  Each part is given where the one before it stopped.    *)
AngleClose(s, e, spec) == IF At(s, e.at) = ">" THEN Okay(e.at + 1, spec, e.st) ELSE Fail(e.at, e.st)

AngleSpec(s, a) == IF a.ok THEN AngleClose(s, EatCFWS(s, a.at, a.st), a.val) ELSE Fail(a.at, a.st)

AngleBehindRoute(s, r) ==
  IF ~r.ok \/ At(s, r.at) = "end" THEN Fail(r.at, r.st) ELSE AngleSpec(s, AddrSpec(s, r.at, r.st))

AngleInside(s, e) ==
  AngleBehindRoute(s, IF At(s, e.at) \in {"@", ","} THEN ObsRoute(s, e.at, e.st) ELSE e)

AngleOpen(s, e) ==
  IF At(s, e.at) = "<" THEN AngleInside(s, EatCFWS(s, e.at + 1, e.st)) ELSE Fail(e.at, e.st)

AngleAddr(s, i, st) == AngleOpen(s, EatCFWS(s, i, st))

\* Mutant: quotes inside an encoded word stay in the name.
KeepQuotes(text) == text

StripQuotes(text) ==
  IF text # <<>> /\ Head(text) = "\"" /\ text[Len(text)] = "\""
    THEN SubSeq(text, 2, Len(text) - 1) ELSE text

(* The obsolete display name, a comment after the address.                 *)
NameInComment(s, i, st) ==
  LET j == SkipBlanks(s, i)
  IN IF At(s, j) = "(" THEN Comment(s, j + 1, st) ELSE Okay(j, <<>>, st)

(* parseMailbox: an addr-spec, else a display name and an angle-addr.      *)
Named(name, spec) ==
  [name EXCEPT !.val = IF name.ok THEN MailboxOf(StripQuotes(name.val), spec) ELSE <<>>]

NameOfAngle(s, g, name) ==
  IF ~g.ok THEN g
  ELSE Named(IF name = <<>> THEN NameInComment(s, g.at, g.st) ELSE Okay(g.at, name, g.st), g.val)

BehindName(s, e, named, name) ==
  IF named /\ At(s, e.at) = "end" THEN Fail(e.at, e.st)
  ELSE NameOfAngle(s, AngleAddr(s, e.at, e.st), name)

NameAndAngle(s, i, p) ==
  BehindName(s, IF p.ok THEN EatCFWS(s, p.at, p.st) ELSE Okay(i, <<>>, p.st), p.ok, p.val)

SpecAndName(s, i, a) ==
  IF a.ok THEN Named(NameInComment(s, a.at, a.st), a.val)
          ELSE NameAndAngle(s, i, Phrase(s, i, a.st))

MailboxAt(s, e) ==
  IF At(s, e.at) = "end" THEN Fail(e.at, e.st) ELSE SpecAndName(s, e.at, AddrSpec(s, e.at, e.st))

Mailbox(s, i, st) == MailboxAt(s, EatCFWS(s, i, st))

(* parseGroup: the name, and the list up to its ";".                       *)
RECURSIVE GroupList(_, _, _, _)

BehindBox(s, e, boxes) ==
  IF At(s, e.at) = "end" THEN Fail(e.at, e.st)
  ELSE IF s[e.at] = ";" THEN Okay(e.at + 1, boxes, e.st)
  ELSE GroupList(s, IF s[e.at] = "," THEN e.at + 1 ELSE e.at, boxes, e.st)

BoxOfGroup(s, m, boxes) ==
  IF m.ok THEN BehindBox(s, EatCFWS(s, m.at, m.st), Append(boxes, m.val)) ELSE Fail(m.at, m.st)

GroupListAt(s, e, boxes) ==
  IF At(s, e.at) = "," THEN GroupList(s, e.at + 1, boxes, e.st)
  ELSE IF At(s, e.at) = ";" THEN Okay(e.at + 1, boxes, e.st)
  ELSE IF At(s, e.at) = "end" THEN Fail(e.at, e.st)
  ELSE BoxOfGroup(s, Mailbox(s, e.at, e.st), boxes)

GroupList(s, i, boxes, st) == GroupListAt(s, EatCFWS(s, i, st), boxes)

GroupOf(name, list) ==
  [list EXCEPT !.val = IF list.ok THEN AddressOf(name, list.val) ELSE <<>>]

GroupColon(s, e, name) ==
  IF At(s, e.at) = ":" THEN GroupOf(name, GroupList(s, e.at + 1, <<>>, e.st)) ELSE Fail(e.at, e.st)

GroupName(s, p) == IF p.ok THEN GroupColon(s, EatCFWS(s, p.at, p.st), p.val) ELSE Fail(p.at, p.st)

GroupAt(s, e) == GroupName(s, Phrase(s, e.at, e.st))

Group(s, i, st) == GroupAt(s, EatCFWS(s, i, st))

SingleOrGroup(s, i, m) ==
  IF m.ok THEN [m EXCEPT !.val = AddressOf(<<>>, <<m.val>>)] ELSE Group(s, i, m.st)

AddressAt(s, e) ==
  IF At(s, e.at) = "end" THEN Fail(e.at, e.st) ELSE SingleOrGroup(s, e.at, Mailbox(s, e.at, e.st))

Address(s, i, st) == AddressAt(s, EatCFWS(s, i, st))

(* parseAddressList; broken clients separate addresses with ";".  What was *)
(* read before an entry that is no address is in the result of a failure.  *)
RECURSIVE InAddressList(_, _, _, _)

BehindAddress(s, e, list) ==
  InAddressList(s, IF At(s, e.at) = "," THEN e.at + 1 ELSE e.at, list, e.st)

OneAddress(s, a, list) ==
  IF a.ok THEN BehindAddress(s, EatCFWS(s, a.at, a.st), Append(list, a.val))
          ELSE [a EXCEPT !.val = list]

AddressListAt(s, e, list) ==
  IF At(s, e.at) = "end" THEN Okay(e.at, list, e.st)
  ELSE IF At(s, e.at) \in {",", ";"} THEN InAddressList(s, e.at + 1, list, e.st)
  ELSE OneAddress(s, Address(s, e.at, e.st), list)

InAddressList(s, i, list, st) == AddressListAt(s, EatCFWS(s, i, st), list)

AddressList(s, memo) == InAddressList(s, 1, <<>>, Fresh(memo))
=============================================================================
