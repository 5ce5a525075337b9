------------------------------- MODULE Router -------------------------------
(***************************************************************************)
(* From the request line to a handler: net/url splits the path into a      *)
(* decoded and a raw form, the mux of server.Run redirects what is not     *)
(* clean and serves the metrics itself, and the generated router matches   *)
(* the rest, character by character, against its two templates.  FindPath  *)
(* is a second copy of that router, which names the route without serving. *)
(*                                                                         *)
(* A path is a sequence of tokens.  "tasks" stands for /v1/tasks and       *)
(* "metrics" for /metrics, at the beginning; "x" is any other text without *)
(* a slash, and "2F" one that could be taken for the rest of an escape.    *)
(* "%2F" and "%25" are the escapes of a slash and of a percent sign; "%78" *)
(* is an x and "%tasks" a /v1/tasks that somebody has escaped without      *)
(* need.                                                                   *)
(***************************************************************************)
EXTENDS Naturals, Sequences

CONSTANT MaxTokens   \* bound on the length of a path

ASSUME TokensAssumption == MaxTokens \in Nat

VARIABLES
    method,   \* of the request
    line,     \* the path as it stands in the request line
    url,      \* the URL: Path, and RawPath unless it is what Path encodes to
    elem,     \* what the router has still to match
    escaped,  \* elemIsEscaped
    args,     \* the path parameter, as it was matched
    at        \* where the request is, and how it ended

rvars == <<method, line, url, elem, escaped, args, at>>

Tokens == {"tasks", "metrics", "/", "x", "2F", "%2F", "%25", "%78", "%tasks"}
Methods == {"POST", "GET", "OPTIONS", "other"}

(* The tokens that begin with a slash, and so hold one. *)
Slashed == {"/", "tasks", "metrics", "%tasks"}

Rooted(p) == p # <<>> /\ p[1] \in Slashed

(* net/url: what a token decodes to, and whether Path alone would encode   *)
(* to something else, so that the raw form is kept.                        *)
Decoded(tok) == CASE tok = "%2F" -> "/" [] tok = "%25" -> "%" [] tok = "%78" -> "x"
                  [] tok = "%tasks" -> "tasks" [] OTHER -> tok

PathUnescape(p) == [i \in DOMAIN p |-> Decoded(p[i])]

KeepsRaw(p) == \E i \in DOMAIN p : p[i] \in {"%2F", "%78", "%tasks"}

Parsed(p) == [path |-> PathUnescape(p), raw |-> IF KeepsRaw(p) THEN p ELSE <<>>]

(* uri.NormalizeEscapedPath: escapes that nobody needs are decoded.        *)
Normalize(tok) == IF tok \in {"%78", "%tasks"} THEN Decoded(tok) ELSE tok
NormalizeEscapedPath(p) == [i \in DOMAIN p |-> Normalize(p[i])]

(* The mux redirects a path with an empty segment.                         *)
Clean(p) ==
    \A i \in 1 .. Len(p) - 1 :
        p[i] = "/" => p[i + 1] \notin Slashed

Init ==
    /\ method \in Methods
    /\ line \in UNION {[1 .. n -> Tokens] : n \in 1 .. MaxTokens}
    /\ Rooted(line) /\ \A i \in 2 .. Len(line) : line[i] # "metrics"
    /\ url = Parsed(line)
    /\ elem = <<>> /\ escaped = FALSE /\ args = <<>>
    /\ at = "mux"

Mux ==
    /\ at = "mux"
    /\ at' = CASE ~Clean(line)           -> "redirect"
               [] line = <<"metrics">>   -> "metrics"
               [] OTHER                  -> "router"
    /\ UNCHANGED <<method, line, url, elem, escaped, args>>

Percent(p) == \E i \in DOMAIN p : p[i] \in {"%2F", "%25", "%78", "%tasks"}

(* The raw path, if there is one, less the escapes that are not needed.    *)
Start ==
    /\ at = "router" /\ at' = "prefix"
    /\ elem' = IF url.raw = <<>> THEN url.path ELSE NormalizeEscapedPath(url.raw)
    /\ escaped' = (url.raw # <<>> /\ Percent(NormalizeEscapedPath(url.raw)))
    /\ UNCHANGED <<method, line, url, args>>

(* The static prefix of both templates, then the end, or a slash.          *)
Prefix ==
    /\ at = "prefix"
    /\ IF Head(elem) = "tasks"
         THEN /\ elem' = Tail(elem)
              /\ at' = IF Tail(elem) = <<>> THEN "createTask" ELSE "slash"
         ELSE at' = "notFound" /\ UNCHANGED elem
    /\ UNCHANGED <<method, line, url, escaped, args>>

(* A leaf parameter: no more slashes.  (Mutant: it takes all there is.)    *)
Leaf_MutGreedy ==
    /\ at = "slash"
    /\ IF Head(elem) = "/"
         THEN args' = Tail(elem) /\ at' = "getTask"
         ELSE UNCHANGED args /\ at' = "notFound"
    /\ UNCHANGED <<method, line, url, elem, escaped>>

Leaf ==
    /\ at = "slash"
    /\ IF Head(elem) = "/" /\ \A i \in 2 .. Len(elem) : elem[i] \notin Slashed
         THEN args' = Tail(elem) /\ at' = "getTask"
         ELSE UNCHANGED args /\ at' = "notFound"
    /\ UNCHANGED <<method, line, url, elem, escaped>>

Method ==
    /\ \/ at = "createTask" /\ at' = (IF method = "POST" THEN "handleCreateTask"
                                      ELSE "notAllowed")
       \/ at = "getTask" /\ at' = (IF method = "GET" THEN "params" ELSE "notAllowed")
    /\ UNCHANGED <<method, line, url, elem, escaped, args>>

(* decodeGetTaskParams unescapes the argument, if it is escaped.           *)
(* (Mutant: it is used as it was matched.)                                 *)
Params_MutAsMatched ==
    /\ at = "params" /\ at' = "handleGetTask"
    /\ UNCHANGED <<method, line, url, elem, escaped, args>>

Params ==
    /\ at = "params" /\ at' = "handleGetTask"
    /\ args' = IF escaped THEN PathUnescape(args) ELSE args
    /\ UNCHANGED <<method, line, url, elem, escaped>>

Next == Mux \/ Start \/ Prefix \/ Leaf \/ Method \/ Params

Spec == Init /\ [][Next]_rvars

---------------------------------------------------------------------------
(* Server.FindPath, as a function of method and URL.                       *)
NoRoute == [op |-> "none", args |-> <<>>]

(* (Mutant: the static prefix is looked for in the decoded path.)          *)
FindPath_MutDecoded(m, u) ==
    LET p == u.path IN
    IF p = <<"tasks">> /\ m = "POST" THEN [op |-> "createTask", args |-> <<>>]
    ELSE IF /\ Len(p) >= 2 /\ p[1] = "tasks" /\ p[2] = "/"
            /\ \A i \in 3 .. Len(p) : p[i] \notin Slashed
            /\ m = "GET"
    THEN [op |-> "getTask", args |-> SubSeq(p, 3, Len(p))]
    ELSE NoRoute

FindPath(m, u) ==
    LET p == IF u.raw = <<>> THEN u.path ELSE NormalizeEscapedPath(u.raw)
        arg == SubSeq(p, 3, Len(p))
    IN
    IF p = <<"tasks">> /\ m = "POST" THEN [op |-> "createTask", args |-> <<>>]
    ELSE IF /\ Len(p) >= 2 /\ p[1] = "tasks" /\ p[2] = "/"
            /\ \A i \in DOMAIN arg : arg[i] \notin Slashed
            /\ m = "GET"
    THEN [op |-> "getTask",
          args |-> IF u.raw = <<>> THEN arg ELSE PathUnescape(arg)]
    ELSE NoRoute

---------------------------------------------------------------------------
(* Properties.                                                             *)

Ended == at \in {"redirect", "metrics", "notFound", "notAllowed",
                 "handleCreateTask", "handleGetTask"}

(* The segments of the line, read as the templates of api/openapi.yaml     *)
(* say: an escaped slash separates nothing, an escape that is not needed   *)
(* means its character.                                                    *)
IsTasks == Len(line) = 1 /\ Decoded(line[1]) = "tasks"
IsTask == /\ Len(line) >= 2 /\ Decoded(line[1]) = "tasks" /\ line[2] = "/"
          /\ \A i \in 3 .. Len(line) : line[i] \notin Slashed

(* The two operations are served exactly for their templates and methods,  *)
(* another method on a template is "not allowed", and nothing else is      *)
(* either, whatever was escaped on the way.                                *)
OnlyTemplates ==
    Ended /\ at \notin {"redirect", "metrics"} =>
        /\ at = "handleCreateTask" <=> IsTasks /\ method = "POST"
        /\ at = "handleGetTask" <=> IsTask /\ method = "GET"
        /\ at = "notAllowed" <=> \/ IsTasks /\ method # "POST"
                                 \/ IsTask /\ method # "GET"

(* The id is the segment of the line with every escape undone once: not    *)
(* twice, when the id holds an escaped percent sign, and not less.         *)
IdDecodedOnce ==
    at = "handleGetTask" => args = [i \in 1 .. Len(line) - 2 |-> Decoded(line[i + 2])]

(* Both copies of the router find the same operation and the same id.      *)
CopiesAgree ==
    Ended /\ at \notin {"redirect", "metrics"} =>
        FindPath(method, url) =
            CASE at = "handleCreateTask" -> [op |-> "createTask", args |-> <<>>]
              [] at = "handleGetTask"    -> [op |-> "getTask", args |-> args]
              [] OTHER                   -> NoRoute
=============================================================================
