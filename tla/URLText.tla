------------------------------ MODULE URLText -------------------------------
(***************************************************************************)
(* LDAP URLs: ldap/ldapurl.py.                                             *)
(*                                                                         *)
(* A text is a sequence of characters, "://" being one.  What a URL may    *)
(* leave out is <<>> when it is None and <<x>> when it is x; extensions    *)
(* are a sequence of types, whether each is critical, and their values.    *)
(***************************************************************************)
EXTENDS Naturals, Sequences, SequencesExt, TLC

\* What quote writes as the number of its octet; "/" it leaves alone.
Code == "?" :> <<"3", "F">> @@ "," :> <<"2", "C">> @@ "%" :> <<"2", "5">> @@ "=" :> <<"3", "D">>
        @@ "!" :> <<"2", "1">> @@ " " :> <<"2", "0">> @@ "/" :> <<"2", "F">>
Scopes == {"", "base", "one", "sub", "subordinates"}

Drop(s, n) == SubSeq(s, n + 1, Len(s))
Upto(s, c) == LET at == SelectInSeq(s, LAMBDA d : d = c) IN IF at = 0 THEN s ELSE SubSeq(s, 1, at - 1)
Joined(texts, separator) ==
    FlattenSeq([i \in DOMAIN texts |-> IF i = 1 THEN texts[i] ELSE <<separator>> \o texts[i]])

-----------------------------------------------------------------------------
(* Writing.                                                                *)

QuotedChar(c) == IF c \in DOMAIN Code THEN <<"%">> \o Code[c] ELSE <<c>>
Quote(s) == FlattenSeq([i \in DOMAIN s |-> IF s[i] = "/" THEN <<"/">> ELSE QuotedChar(s[i])])

LdapUrlEscape(s) == FlattenSeq([i \in DOMAIN s |-> QuotedChar(s[i])])

ExtensionText(e) ==
    (IF e.critical THEN <<"!">> ELSE <<>>) \o e.extype
    \o (IF e.exvalue = <<>> THEN <<>> ELSE <<"=">> \o Quote(e.exvalue[1]))
ExtensionsText(es) == Joined([i \in DOMAIN es |-> ExtensionText(es[i])], ",")

\* The path of a socket has slashes in it.
Hostport(u) == IF u.urlscheme = "ldapi" THEN LdapUrlEscape(u.hostport) ELSE u.hostport
InitializeUrl(u) == <<u.urlscheme, "://">> \o Hostport(u)

Unparse(u) ==
    InitializeUrl(u) \o <<"/">> \o LdapUrlEscape(u.dn)
    \o <<"?">> \o (IF u.attrs = <<>> THEN <<>> ELSE Joined(u.attrs[1], ","))
    \o <<"?">> \o (IF u.scope = "" THEN <<>> ELSE <<u.scope>>)
    \o <<"?">> \o (IF u.filterstr = <<>> THEN <<>> ELSE LdapUrlEscape(u.filterstr[1]))
    \o (IF u.extensions \in {<<>>, <<<<>>>>} THEN <<>> ELSE <<"?">> \o ExtensionsText(u.extensions[1]))

-----------------------------------------------------------------------------
(* Reading.                                                                *)

RECURSIVE Unquote(_)
Unquote(s) ==
    IF s = <<>> THEN <<>>
    ELSE IF Head(s) = "%" /\ Len(s) >= 3 /\ \E c \in DOMAIN Code : Code[c] = SubSeq(s, 2, 3)
         THEN <<CHOOSE c \in DOMAIN Code : Code[c] = SubSeq(s, 2, 3)>> \o Unquote(Drop(s, 3))
    ELSE <<Head(s)>> \o Unquote(Tail(s))

RECURSIVE Strip(_)
Strip(s) == IF s # <<>> /\ Head(s) = " " THEN Strip(Tail(s))
            ELSE IF s # <<>> /\ Last(s) = " " THEN Strip(Front(s))
            ELSE s

\* The parts between separators, the last of them with all that is left.
RECURSIVE SplitAt(_, _, _)
SplitAt(s, separator, most) ==
    IF most = 0 \/ ~Contains(s, separator) THEN <<s>>
    ELSE <<Upto(s, separator)>> \o SplitAt(Drop(s, Len(Upto(s, separator)) + 1), separator, most - 1)
SplitAll(s, separator) == SplitAt(s, separator, Len(s))

\* LDAPUrlExtension._parse: a value that is empty is none.
ParseExtension(text) ==
    LET t == Strip(text)
        critical == Head(t) = "!"
        body == IF critical THEN Strip(Tail(t)) ELSE t
        value == Drop(body, Len(Upto(body, "=")) + 1)
    IN [critical |-> critical, extype |-> Strip(Upto(body, "=")),
        exvalue |-> IF value = <<>> THEN <<>> ELSE <<Unquote(Strip(value))>>]

\* LDAPUrlExtensions: by their types, a later one in the place of an earlier.
Store(es, e) ==
    LET at == SelectInSeq(es, LAMBDA x : x.extype = e.extype)
    IN IF at = 0 THEN Append(es, e) ELSE [es EXCEPT ![at] = e]
Parse(text) ==
    LET given == SelectSeq(SplitAll(Strip(text), ","), LAMBDA t : t # <<>>)
    IN FoldLeft(Store, <<>>, [i \in DOMAIN given |-> ParseExtension(given[i])])

\* LDAPUrl._parse: what a URL has not is as it was given to the constructor, which
\* is given nothing here. A scope that is none is refused.
Blank == [urlscheme |-> "ldap", hostport |-> <<>>, dn |-> <<>>, attrs |-> <<>>, scope |-> "",
          filterstr |-> <<>>, extensions |-> <<<<>>>>]
Refused == [Blank EXCEPT !.scope = "refused"]

ParseUrl(text) ==
    LET rest == Drop(text, 2)
        hostport == Upto(Upto(rest, "/"), "?")
        after == Drop(rest, Len(hostport))
        \* a question mark that is first belongs to the rest, a slash does not
        params == SplitAt(IF after = <<>> THEN <<>> ELSE IF Head(after) = "/" THEN Tail(after) ELSE after,
                          "?", 4)
        at(i) == IF i <= Len(params) THEN params[i] ELSE <<>>
        scope == Strip(at(3))
    IN IF scope # <<>> /\ (Len(scope) > 1 \/ scope[1] \notin Scopes) THEN Refused
       ELSE [urlscheme |-> text[1], hostport |-> Unquote(hostport),
             dn |-> Strip(Unquote(at(1))),
             attrs |-> IF at(2) = <<>> THEN <<>> ELSE <<SplitAll(Unquote(Strip(at(2))), ",")>>,
             scope |-> IF scope = <<>> THEN "" ELSE scope[1],
             filterstr |-> IF Strip(at(4)) = <<>> THEN <<>> ELSE <<Unquote(Strip(at(4)))>>,
             extensions |-> IF Len(params) < 5 THEN <<<<>>>>
                            ELSE IF at(5) = <<>> THEN <<>> ELSE <<Parse(at(5))>>]

-----------------------------------------------------------------------------
(* The bind DN and the password, which a URL has as extensions.            *)

Set(u, extype, value) ==
    LET es == IF u.extensions = <<>> THEN <<>> ELSE u.extensions[1]
    IN [u EXCEPT !.extensions =
          <<Store(es, [critical |-> FALSE, extype |-> extype, exvalue |-> <<Unquote(value)>>])>>]
Del(u, extype) ==
    IF u.extensions = <<>> THEN u
    ELSE [u EXCEPT !.extensions = <<SelectSeq(@[1], LAMBDA e : e.extype # extype)>>]
Get(u, extype) ==
    LET es == IF u.extensions = <<>> THEN <<>> ELSE u.extensions[1]
        at == SelectInSeq(es, LAMBDA e : e.extype = extype)
    IN IF at = 0 THEN <<>>
       ELSE IF es[at].exvalue = <<>> THEN <<>> ELSE <<Unquote(es[at].exvalue[1])>>

-----------------------------------------------------------------------------
\* A URL is read as it was written: no part of it becomes another, and what is
\* empty is what is not there.
URLComesBack(u) == ParseUrl(Unparse(u)) = u

\* Parts at the end of a URL may be left out, and those that are not are the same.
ShorterURLsAreRead(u) ==
    LET text == Unparse(u)
        cut == SelectInSubSeq(text, 1, Len(text), LAMBDA c : c = "?")
    IN cut # 0 => LET v == ParseUrl(SubSeq(text, 1, cut - 1))
                  IN v = [Blank EXCEPT !.urlscheme = u.urlscheme, !.hostport = u.hostport, !.dn = u.dn]

\* Who is bound comes back as it was set, through the text of the URL, beside
\* other extensions, and is gone when it is deleted; a percent sign in it would
\* be read twice.
WhoComesBack(u, who) ==
    LET set == Set(u, <<"w">>, who)
    IN /\ Get(ParseUrl(Unparse(set)), <<"w">>) = <<who>>
       /\ Get(ParseUrl(Unparse(Del(set, <<"w">>))), <<"w">>) = <<>>
=============================================================================
