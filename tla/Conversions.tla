------------------------------ MODULE Conversions ------------------------------
(* Paths, permissions and values: what VSSPath, AccessChecker, getLeafPaths and
   VSSTypeSanitizer compute.

   A text (a path of a request, or the key of a permission) is a sequence of
   tokens: names, separators, and "*" for any name.  A node of the tree is the
   sequence of its names; the steps into "children" of the JSON path are implied.

   Left out: texts with two separators in a row; a "*" within a name; a
   dot of a permission key that, as a regular expression, stands for a letter.  *)
EXTENDS Integers, Sequences

(* fromVSS: one dot makes a text a "gen1" path.  The gen1 path is then the text
   itself, also where it has slashes; the other forms are converted.           *)
IsGen1Origin(text) == \E i \in DOMAIN text : text[i] = "."

gen1togen2(text) == [i \in DOMAIN text |-> IF text[i] = "." THEN "/" ELSE text[i]]

(* Mutation: the slashes are left. *)
KeepSlashes(text) == text
gen2togen1(text)  == [i \in DOMAIN text |-> IF text[i] = "/" THEN "." ELSE text[i]]

VSSGen1Path(text)  == IF IsGen1Origin(text) THEN text ELSE gen2togen1(text)
VSSPath(text)      == IF IsGen1Origin(text) THEN gen1togen2(text) ELSE text
gen2tojson(text)   == [i \in 1 .. (Len(text) + 1) \div 2 |-> text[2 * i - 1]]
JSONPath(text)     == gen2tojson(VSSPath(text))

(* fromJSON: the gen1 path of a node. *)
Dotted(node) ==
  [i \in 1 .. 2 * Len(node) - 1 |-> IF i % 2 = 1 THEN node[(i + 1) \div 2] ELSE "."]

-----------------------------------------------------------------------------
(* Queries on the tree, which is given by its leaves. *)

Selects(query, node) ==
  /\ Len(query) = Len(node)
  /\ \A i \in DOMAIN query : query[i] \in {"*", node[i]}

UpTo(node, n) == SubSeq(node, 1, n)
Nodes(leaves) == UNION {{UpTo(l, n) : n \in 1 .. Len(l)} : l \in leaves}

Results(leaves, text)   == {n \in Nodes(leaves) : Selects(JSONPath(text), n)}
LeafPaths(leaves, text) ==
  LET query == JSONPath(text) IN
  {l \in leaves : Len(query) <= Len(l) /\ Selects(query, UpTo(l, Len(query)))}

-----------------------------------------------------------------------------
(* checkSignalAccess: the key itself, or else the last key in their order that,
   with "*" for any text, matches.  A dot of a key matches a slash as well.    *)

Same(key, token) == key = token \/ (key = "." /\ token = "/")

(* Where a match can end that takes in one more token of the key, of those that
   ended before.                                                               *)
Ends(text, token, before) ==
  IF token = "*" THEN {i \in 0 .. Len(text) : \E k \in before : k <= i}
  ELSE {i \in 1 .. Len(text) : i - 1 \in before /\ Same(token, text[i])}

Matches(text, key) ==
  LET E[j \in 0 .. Len(key)] == IF j = 0 THEN {0} ELSE Ends(text, key[j], E[j - 1])
  IN  Len(text) \in E[Len(key)]

Exact(perms, path)    == {i \in DOMAIN perms : perms[i].key = path}
Matching(perms, path) == {i \in DOMAIN perms : Matches(path, perms[i].key)}

(* Mutation: without a matching key everything is allowed. *)
AllowUnlisted(perms, path, right) ==
  Exact(perms, path) \cup Matching(perms, path) # {} =>
    \E i \in Exact(perms, path) \cup Matching(perms, path) : right \in perms[i].right

checkSignalAccess(perms, path, right) ==
  IF Exact(perms, path) # {}
  THEN \E i \in Exact(perms, path) : right \in perms[i].right
  ELSE \E i \in Matching(perms, path) :
         /\ \A k \in Matching(perms, path) : k <= i
         /\ right \in perms[i].right

-----------------------------------------------------------------------------
(* checkAndSanitizeType.  The description of a leaf has its type; for numbers
   the width lo .. hi of the type and the limits min .. max; for strings the
   values allowed (none: all).  A value is a pair of its form and its content:
   "number" and "bool" are JSON's, "digits" and "text" are strings that are a
   number or not, and the content of an "array" is a sequence of values.       *)

Form(v)    == v[1]
Content(v) == v[2]
Error       == <<"error", 0>>
Unsupported == <<"unsupported", 0>>  \* genException

Wrapped(n, d) == d.lo + ((n - d.lo) % (d.hi - d.lo + 1))

(* as<T>: digits that do not fit are an exception; whether a JSON number that
   does not fit is one, or is cut to the width, is left to the library.        *)
AsNumber(v, d) ==
  IF Form(v) \notin {"number", "digits"} THEN {Error}
  ELSE IF Content(v) \in d.lo .. d.hi THEN {<<"number", Content(v)>>}
  ELSE {Error} \cup (IF Form(v) = "number" THEN {<<"number", Wrapped(Content(v), d)>>} ELSE {})

(* Mutation: no upper limit. *)
NoMaximum(n, d)    == n >= d.min
WithinLimits(n, d) == n >= d.min /\ n <= d.max

checkNumTypes(v, d) ==
  {IF r # Error /\ WithinLimits(Content(r), d) THEN r ELSE Error : r \in AsNumber(v, d)}

checkBoolType(v) ==
  IF Form(v) \in {"text", "bool"} /\ Content(v) \in {"true", "false"}
  THEN {<<"bool", Content(v)>>} ELSE {Error}

checkEnumType(v, d) ==
  IF d.allowed = {} \/ (Form(v) = "text" /\ Content(v) \in d.allowed) THEN {v} ELSE {Error}

(* The elements are converted one by one, but in copies: the array is stored as
   it was sent.  Its elements have the width of their type and no limits.      *)
Unlimited(d) == [d EXCEPT !.min = d.lo, !.max = d.hi]

checkArrayType(v, d) ==
  LET elements == IF Form(v) = "array" THEN DOMAIN Content(v) ELSE {}
      Outcomes(i) == checkNumTypes(Content(v)[i], Unlimited(d)) IN
  {r \in {v, Error} :
     \/ r = Error /\ (Form(v) # "array" \/ \E i \in elements : Error \in Outcomes(i))
     \/ r = v /\ Form(v) = "array" /\ \A i \in elements : Outcomes(i) # {Error}}

checkAndSanitizeType(v, d) ==
  CASE d.type = "number"  -> checkNumTypes(v, d)
    [] d.type = "boolean" -> checkBoolType(v)
    [] d.type = "string"  -> checkEnumType(v, d)
    [] d.type = "array"   -> checkArrayType(v, d)
    [] d.type = "unsupported" -> {Unsupported}
=============================================================================
