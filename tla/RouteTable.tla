----------------------------- MODULE RouteTable -----------------------------
(***************************************************************************)
(* The public side's path arithmetic, as operators: internal/router/       *)
(* route.go, the prefix rules of internal/config (load.go, control_path.go)*)
(* and the header rewriting of internal/server/proxy_rewrite.go.           *)
(*                                                                         *)
(* A path is the sequence of its parts, each with the slash before it:     *)
(* <<"a", "b">> is /a/b, <<"a", "">> is /a/, <<"", "a">> is //a, <<"">> is *)
(* / and <<>> is the empty string.  So p + "/" is a prefix of the string q *)
(* exactly when p is a strict prefix of the sequence q.                    *)
(***************************************************************************)
EXTENDS Naturals, SequencesExt

Root == <<"">>

\* strings.HasPrefix(q, p + "/")
Under(q, p) == IsStrictPrefix(p, q)

\* One part of path.Clean: empty parts and "." vanish, ".." drops a part.  A
\* ".." with nothing to drop vanishes from a rooted path and stays in another.
CleanPart(rooted, acc, x) ==
    CASE x \in {"", "."} -> acc
      [] x = ".."        -> IF acc # <<>> /\ Last(acc) # ".." THEN Front(acc)
                            ELSE IF rooted THEN acc
                            ELSE Append(acc, x)
      [] OTHER           -> Append(acc, x)

\* Kept(rooted, p)[n] is what path.Clean has kept of the first n parts.  (A
\* recursive function, like Bytes below, so that RoutingProofs can unfold it.)
Kept(rooted, p) ==
    LET kept[n \in 0..Len(p)] ==
            IF n = 0 THEN <<>> ELSE CleanPart(rooted, kept[n - 1], p[n])
    IN  kept

\* path.Clean of a rooted path.
Clean(p) == IF Kept(TRUE, p)[Len(p)] = <<>> THEN Root ELSE Kept(TRUE, p)[Len(p)]

\* path.Clean of a path without leading slash (its first part has none).
CleanRelative(p) ==
    IF Kept(FALSE, p)[Len(p)] = <<>> THEN <<".">> ELSE Kept(FALSE, p)[Len(p)]

\* Bytes(p)[n]: the first n parts, one byte for each slash and those of the
\* part itself.
Bytes(p) ==
    LET bytes[n \in 0..Len(p)] ==
            IF n = 0 THEN 0 ELSE bytes[n - 1] + 1 + Len(p[n])
    IN  bytes

\* len(p)
ByteLen(p) == Bytes(p)[Len(p)]

NormalizePathPrefix(p) == IF p = <<>> THEN <<>> ELSE Clean(p)

\* Variant: the prefix itself is cut down to nothing.
StripToNothing(p, prefix) ==
    IF prefix \notin {<<>>, Root} /\ IsPrefix(prefix, p)
    THEN SubSeq(p, Len(prefix) + 1, Len(p))
    ELSE p

\* StripPathPrefix: the path the backend gets.  A path outside the prefix is
\* left alone, which is also what Rewrite does when ok is false.
StripPathPrefix(p, prefix) ==
    IF prefix \in {<<>>, Root} THEN p
    ELSE CASE p = prefix        -> Root
           [] Under(p, prefix)  -> SubSeq(p, Len(prefix) + 1, Len(p))
           [] OTHER             -> p

-----------------------------------------------------------------------------
(* Which bindings the configuration accepts.  A binding is a record with    *)
(* the fields client, host, prefix (normalized), strip.                    *)

\* Two prefixes one of which is below the other, or equal.
Nested(p, q) == p = q \/ Under(p, q) \/ Under(q, p)

\* validatePathPrefixConflicts: the non-empty prefixes of one subdomain that
\* belong to different clients are not nested.
PathPrefixConflictsOK(bs) ==
    \A i, j \in DOMAIN bs :
        (/\ i # j
         /\ bs[i].host = bs[j].host
         /\ bs[i].client # bs[j].client
         /\ <<>> \notin {bs[i].prefix, bs[j].prefix})
            => ~Nested(bs[i].prefix, bs[j].prefix)

\* Variant: only the direction "prefix above control_path" is tested.
ControlAboveOK(control, bs) ==
    \A i \in DOMAIN bs : bs[i].prefix # <<>> => ~Under(control, bs[i].prefix)

\* validateControlPathNotConflicting: control_path is reserved on every host.
ControlPathOK(control, bs) ==
    \A i \in DOMAIN bs : bs[i].prefix # <<>> => ~Nested(bs[i].prefix, control)

\* The client and route keys that ValidateServer collects: no duplicates.
KeysOK(bs) ==
    \A i, j \in DOMAIN bs : i # j =>
        /\ bs[i].client # bs[j].client
        /\ <<bs[i].host, bs[i].prefix>> # <<bs[j].host, bs[j].prefix>>

ValidBindings(control, bs) ==
    /\ control # Root
    /\ ControlPathOK(control, bs)
    /\ bs # <<>>
    /\ KeysOK(bs)
    /\ PathPrefixConflictsOK(bs)

-----------------------------------------------------------------------------
(* The table and the match.                                                *)

\* Variant: sorted the other way.
ShorterFirst(bs, h) ==
    {o \in SetToSeqs({i \in DOMAIN bs : bs[i].host = h}) :
        \A i, j \in DOMAIN o : i < j =>
            ByteLen(bs[o[i]].prefix) <= ByteLen(bs[o[j]].prefix)}

\* NewRouteTable: the routes of host h, longest prefix string first.
\* sort.Slice is not stable, so routes of equal length come in any order.
NewRouteTable(bs, h) ==
    {o \in SetToSeqs({i \in DOMAIN bs : bs[i].host = h}) :
        \A i, j \in DOMAIN o : i < j =>
            ByteLen(bs[o[i]].prefix) >= ByteLen(bs[o[j]].prefix)}

NoRoute == 0

\* Match: the first route of the order o whose prefix holds the cleaned
\* path, else the one without a prefix, else ErrNoRoute.
Match(bs, o, p) ==
    LET Hits == {i \in DOMAIN o :
                    LET q == bs[o[i]].prefix
                    IN  /\ q # <<>>
                        /\ q = Root \/ Clean(p) = q \/ Under(Clean(p), q)}
        Fallback == {i \in DOMAIN o : bs[o[i]].prefix = <<>>}
    IN  CASE Hits # {}                      -> o[Min(Hits)]
          [] Hits = {} /\ Fallback # {}     -> o[Max(Fallback)]
          [] OTHER                          -> NoRoute

-----------------------------------------------------------------------------
(* Response headers of a route whose prefix is stripped.                   *)

\* prependPublicPath
PrependPublicPath(prefix, p) ==
    LET c == Clean(p)
    IN  CASE c = Root                          -> prefix
          [] c # Root /\ IsPrefix(prefix, c)   -> c
          [] OTHER                             -> prefix \o c

\* A header text: the query, whose first part is joined to the path's last.
Text(path, query) ==
    IF query = <<>> THEN path
    ELSE Front(path) \o <<Last(path) \o "?" \o Head(query)>> \o Tail(query)

\* rewriteLocation.  A Location has a kind: "path" begins with a slash, "url"
\* has a scheme and a host before its path, "relative" has no leading slash.
\* Only a url is parsed; of a "path" the query too is cleaned as path.
RewriteLocation(prefix, loc) ==
    CASE loc.kind = "path" ->
             PrependPublicPath(prefix, Text(loc.path, loc.query))
      [] loc.kind = "url" /\ loc.path # <<>> ->
             Text(PrependPublicPath(prefix, loc.path), loc.query)
      [] OTHER -> Text(loc.path, loc.query)

\* Variant: the cookie's path is left as the backend wrote it.
CookiePathAsIs(prefix, c) == c

\* rewriteCookiePath.  A Path attribute has parts, the first of them with or
\* without a slash; without one it gets one, and an empty one counts as "/".
RewriteCookiePath(prefix, c) ==
    [slash |-> TRUE,
     parts |-> PrependPublicPath(prefix, IF c.parts = <<>> THEN Root ELSE c.parts)]
=============================================================================
