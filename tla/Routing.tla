------------------------------- MODULE Routing -------------------------------
(***************************************************************************)
(* Names of tools: what list_tools shows and where call_tool sends a call   *)
(* (server.py:505-534, proxy.py:75-86).                                     *)
(*                                                                          *)
(* The proxied tools of an upstream carry its namespace as a prefix.  A     *)
(* call is routed by the text of the name alone, over the tool lists of the *)
(* moment, which a reconnection may have changed since the client saw them. *)
(* The routing keeps no state: this module has operators and theorems only. *)
(***************************************************************************)
EXTENDS Integers, SequenceTheorems, TLAPS

CONSTANTS
  Char,       \* the characters of names
  Separator,  \* "__"
  Own,        \* SUPERVISOR_TOOL_NAMES
  Upstream,   \* positions in the dict of upstreams, in its order
  Namespace   \* Namespace[u]: spec.namespace, empty for none

Name == Seq(Char)

\* What the configuration and the program guarantee.
Params ==
  /\ Separator \in Name
  /\ Own \subseteq Name
  /\ Upstream \subseteq Int
  /\ Namespace \in [Upstream -> Name]

\* What an upstream's names begin with: nothing without a namespace.
Lead(u) == IF Namespace[u] = <<>> THEN <<>> ELSE Namespace[u] \o Separator

Prefix(u, orig) == Lead(u) \o orig

StartsWith(name, head) ==
  Len(head) <= Len(name) /\ \A i \in 1..Len(head) : name[i] = head[i]

\* unprefix for a name that starts with the prefix.
Unprefix(u, name) == SubSeq(name, Len(Lead(u)) + 1, Len(name))

\* offer[u]: the names in the tool list of u.
Matches(offer, u, name) ==
  StartsWith(name, Lead(u)) /\ Unprefix(u, name) \in offer[u]

\* list_tools shows `name` as the tool `orig` of u.
Lists(offer, name, u, orig) == orig \in offer[u] /\ name = Prefix(u, orig)

\* call_tool sends a call of `name` to u: its own tools come first, then the
\* first upstream in the order of the configuration.
RoutesTo(offer, name, u) ==
  /\ name \notin Own
  /\ Matches(offer, u, name)
  /\ \A v \in Upstream : Matches(offer, v, name) => u <= v

\* No namespace with its separator begins another one.
Apart ==
  \A u, v \in Upstream : u # v => ~StartsWith(Lead(u), Lead(v))

Offers == [Upstream -> SUBSET Name]

-----------------------------------------------------------------------------

LEMMA LeadIsName == ASSUME Params, NEW u \in Upstream PROVE Lead(u) \in Name
BY DEF Params, Lead, Name

\* unprefix undoes prefix (proxy.py:75-86).
LEMMA UnprefixPrefix ==
  ASSUME Params, NEW u \in Upstream, NEW orig \in Name
  PROVE  /\ Prefix(u, orig) \in Name
         /\ StartsWith(Prefix(u, orig), Lead(u))
         /\ Unprefix(u, Prefix(u, orig)) = orig
<1> DEFINE h == Lead(u)
<1>1. h \in Seq(Char) /\ orig \in Seq(Char)
  BY LeadIsName DEF Name
<1> HIDE DEF h
<1>2. h \o orig \in Seq(Char) /\ Len(h \o orig) = Len(h) + Len(orig)
  BY <1>1
<1>3. \A i \in 1..Len(h) : (h \o orig)[i] = h[i]
  BY <1>1
<1>4. SubSeq(h \o orig, Len(h) + 1, Len(h \o orig)) = orig
  BY <1>1, <1>2
<1>5. QED
  BY <1>1, <1>2, <1>3, <1>4 DEF Prefix, StartsWith, Unprefix, h, Name

LEMMA PrefixUnprefix ==
  ASSUME Params, NEW u \in Upstream, NEW name \in Name,
         StartsWith(name, Lead(u))
  PROVE  Unprefix(u, name) \in Name /\ Prefix(u, Unprefix(u, name)) = name
<1> DEFINE h == Lead(u)
           rest == SubSeq(name, Len(h) + 1, Len(name))
<1>1. /\ h \in Seq(Char) /\ name \in Seq(Char)
      /\ Len(h) <= Len(name) /\ \A i \in 1..Len(h) : name[i] = h[i]
  BY LeadIsName DEF Name, StartsWith
<1> HIDE DEF h
<1>2. /\ rest \in Seq(Char) /\ Len(rest) = Len(name) - Len(h)
      /\ \A i \in 1..Len(rest) : rest[i] = name[Len(h) + i]
  BY <1>1
<1> HIDE DEF rest
<1>3. /\ h \o rest \in Seq(Char) /\ Len(h \o rest) = Len(name)
      /\ \A i \in 1..Len(name) :
           (h \o rest)[i] = IF i <= Len(h) THEN h[i] ELSE rest[i - Len(h)]
  BY <1>1, <1>2
<1>4. \A i \in 1..Len(name) : (h \o rest)[i] = name[i]
  BY <1>1, <1>2, <1>3
<1>5. h \o rest = name
  BY <1>1, <1>3, <1>4, SeqEqual
<1>6. QED
  BY <1>2, <1>5 DEF Prefix, Unprefix, h, rest, Name

\* A call of a name reaches a tool that list_tools shows under that very
\* name, whatever the namespaces (server.py:505-534).
THEOREM RoutedIsListed ==
  ASSUME Params, NEW offer \in Offers, NEW name \in Name,
         NEW u \in Upstream, RoutesTo(offer, name, u)
  PROVE  Lists(offer, name, u, Unprefix(u, name))
BY PrefixUnprefix DEF RoutesTo, Matches, Lists

\* When no namespace begins another, two upstreams never claim one name.
LEMMA OneMatch ==
  ASSUME Params, Apart, NEW name \in Name,
         NEW u \in Upstream, NEW v \in Upstream,
         StartsWith(name, Lead(u)), StartsWith(name, Lead(v))
  PROVE  u = v
<1>1. SUFFICES ASSUME u # v PROVE FALSE
  OBVIOUS
<1>2. Lead(u) \in Name /\ Lead(v) \in Name
  BY LeadIsName
<1>3. Len(Lead(u)) \in Nat /\ Len(Lead(v)) \in Nat
  BY <1>2 DEF Name
<1>4. CASE Len(Lead(u)) <= Len(Lead(v))
  <2>1. StartsWith(Lead(v), Lead(u))
    BY <1>3, <1>4 DEF StartsWith
  <2>2. QED
    BY <2>1, <1>1 DEF Apart
<1>5. CASE Len(Lead(v)) <= Len(Lead(u))
  <2>1. StartsWith(Lead(u), Lead(v))
    BY <1>3, <1>5 DEF StartsWith
  <2>2. QED
    BY <2>1, <1>1 DEF Apart
<1>6. QED
  BY <1>3, <1>4, <1>5

\* When no namespace begins another, a listed name that is not one of the
\* supervisor's own reaches the upstream that listed it, and its tool.
THEOREM ListedIsRouted ==
  ASSUME Params, Apart, NEW offer \in Offers, NEW u \in Upstream,
         NEW orig \in Name, NEW name,
         Lists(offer, name, u, orig), name \notin Own
  PROVE  RoutesTo(offer, name, u) /\ Unprefix(u, name) = orig
<1>1. name \in Name /\ StartsWith(name, Lead(u)) /\ Unprefix(u, name) = orig
  BY UnprefixPrefix DEF Lists
<1>2. Matches(offer, u, name)
  BY <1>1 DEF Matches, Lists
<1>3. ASSUME NEW v \in Upstream, Matches(offer, v, name) PROVE u <= v
  <2>1. u = v
    BY <1>1, <1>3, OneMatch DEF Matches
  <2>2. QED
    BY <2>1 DEF Params
<1>4. QED
  BY <1>1, <1>2, <1>3 DEF RoutesTo

\* The tool lists may have changed since the client saw them.  Then a call
\* still reaches the upstream and the tool the client saw, or nothing
\* (server.py:522-534): it never runs another upstream's tool instead.
THEOREM StaleListingIsSafe ==
  ASSUME Params, Apart, NEW before \in Offers, NEW now \in Offers,
         NEW u \in Upstream, NEW orig \in Name, NEW name,
         Lists(before, name, u, orig),
         NEW v \in Upstream, RoutesTo(now, name, v)
  PROVE  v = u /\ Unprefix(v, name) = orig
<1>1. name \in Name /\ StartsWith(name, Lead(u)) /\ Unprefix(u, name) = orig
  BY UnprefixPrefix DEF Lists
<1>2. StartsWith(name, Lead(v))
  BY DEF RoutesTo, Matches
<1>3. QED
  BY <1>1, <1>2, OneMatch

=============================================================================
