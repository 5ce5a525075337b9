---------------------------- MODULE RouterProofs ----------------------------
(***************************************************************************)
(* The routes, for paths of any length.  The router matches the raw path,  *)
(* less the escapes that nobody needs, or else the decoded one: token for  *)
(* token, both say of the slashes and of the prefix what the request line  *)
(* says.                                                                   *)
(***************************************************************************)
EXTENDS Router, SequenceTheorems, TLAPS

(* What the router matches.                                                *)
Form == IF url.raw = <<>> THEN url.path ELSE NormalizeEscapedPath(url.raw)

(* Tokens, escaped or not.                                                 *)
Chars == Tokens \cup {"%"}

(* A request line, and the URL made of it.                                 *)
Arrived ==
    /\ method \in Methods
    /\ line \in Seq(Tokens) /\ line # <<>>
    /\ url = Parsed(line)

(* At each place of the router, what it has matched of the line.           *)
RouterInv ==
    /\ Arrived
    /\ at = "prefix" => elem = Form
    /\ at \in {"prefix", "slash", "createTask", "getTask", "params"} =>
          (escaped <=> url.raw # <<>> /\ Percent(Form))
    /\ at = "slash" => /\ Len(line) >= 2 /\ Decoded(line[1]) = "tasks"
                       /\ elem = Tail(Form)
    /\ at \in {"createTask", "handleCreateTask"} => IsTasks
    /\ at = "handleCreateTask" => method = "POST"
    /\ at \in {"getTask", "params", "handleGetTask"} => IsTask
    /\ at \in {"getTask", "params"} => args = Tail(Tail(Form))
    /\ at \in {"params", "handleGetTask"} => method = "GET"
    /\ at = "notFound" => ~IsTasks /\ ~IsTask
    /\ at = "notAllowed" => \/ IsTasks /\ method # "POST"
                            \/ IsTask /\ method # "GET"
    /\ IdDecodedOnce

(* Token for token, the two forms of the path differ where it is harmless. *)
LEMMA TokensAgree ==
    ASSUME NEW tok \in Tokens
    PROVE  /\ Decoded(Normalize(tok)) = Decoded(tok)
           /\ Normalize(tok) = "tasks" <=> Decoded(tok) = "tasks"
           /\ Normalize(tok) = "/" <=> tok = "/"
           /\ Normalize(tok) \in Slashed <=> tok \in Slashed
           /\ tok \notin {"%2F", "%78", "%tasks"} =>
                 /\ Decoded(tok) = "/" <=> tok = "/"
                 /\ Decoded(tok) \in Slashed <=> tok \in Slashed
           /\ Normalize(tok) \notin {"%2F", "%25", "%78", "%tasks"} =>
                 Normalize(tok) = Decoded(tok)
           /\ Normalize(tok) \in Chars /\ Decoded(tok) \in Chars
PROOF
  BY DEF Tokens, Normalize, Decoded, Slashed, Chars

(* What is left of a sequence after its first element ...              *)
LEMMA TailOnce ==
    ASSUME NEW S, NEW s \in Seq(S), Len(s) >= 1
    PROVE  /\ Tail(s) \in Seq(S) /\ Len(Tail(s)) = Len(s) - 1
           /\ Tail(s) = [i \in 1 .. Len(s) - 1 |-> s[i + 1]]
PROOF
  <1>1. s # <<>> /\ Len(s) \in Nat
    OBVIOUS
  <1>2. /\ Tail(s) \in Seq(S) /\ Len(Tail(s)) = Len(s) - 1
        /\ \A i \in 1 .. Len(s) - 1 : Tail(s)[i] = s[i + 1]
    BY <1>1
  <1>3. Tail(s) = [i \in 1 .. Len(Tail(s)) |-> Tail(s)[i]]
    BY <1>2, LenProperties
  <1> QED
    BY <1>2, <1>3

(* ... and after its first two.                                            *)
LEMMA TailTwice ==
    ASSUME NEW S, NEW s \in Seq(S), Len(s) >= 2
    PROVE  Tail(Tail(s)) = [i \in 1 .. Len(s) - 2 |-> s[i + 2]]
PROOF
  <1> DEFINE u == Tail(s)
  <1>1. /\ u \in Seq(S) /\ Len(u) = Len(s) - 1 /\ Len(u) >= 1 /\ Len(s) \in Nat
        /\ \A i \in 1 .. Len(s) - 1 : u[i] = s[i + 1]
    BY TailOnce
  <1> HIDE DEF u
  <1>2. Tail(u) = [i \in 1 .. Len(u) - 1 |-> u[i + 1]]
    BY <1>1, TailOnce
  <1>3. \A i \in 1 .. Len(s) - 2 : u[i + 1] = s[i + 2]
    <2> SUFFICES ASSUME NEW i \in 1 .. Len(s) - 2 PROVE u[i + 1] = s[i + 2]
      OBVIOUS
    <2>1. i + 1 \in 1 .. Len(s) - 1 /\ (i + 1) + 1 = i + 2
      BY <1>1
    <2> QED
      BY <1>1, <2>1
  <1> QED
    BY <1>1, <1>2, <1>3 DEF u

(* What is matched is as long as the line, and says the same of prefix,    *)
(* slashes and parameter.                                                  *)
LEMMA FormFacts ==
    ASSUME Arrived
    PROVE  /\ Form = [i \in 1 .. Len(line) |-> Form[i]]
           /\ Form # <<>> /\ Form \in Seq(Chars) /\ Len(Form) = Len(line)
           /\ Len(line) \in Nat \ {0} /\ DOMAIN line = 1 .. Len(line)
           /\ url.raw = <<>> <=> ~KeepsRaw(line)
           /\ \A i \in DOMAIN line :
                 /\ Form[i] = "tasks" <=> Decoded(line[i]) = "tasks"
                 /\ Form[i] = "/" <=> line[i] = "/"
                 /\ Form[i] \in Slashed <=> line[i] \in Slashed
                 /\ url.raw = <<>> => Form[i] = Decoded(line[i])
                 /\ url.raw # <<>> => Decoded(Form[i]) = Decoded(line[i])
                 /\ ~Percent(Form) => Form[i] = Decoded(line[i])
PROOF
  <1>1. /\ line \in Seq(Tokens) /\ Len(line) \in Nat \ {0} /\ DOMAIN line = 1 .. Len(line)
        /\ url.path = PathUnescape(line)
        /\ url.raw = IF KeepsRaw(line) THEN line ELSE <<>>
        /\ line # <<>>
    BY DEF Arrived, Parsed
  <1>2. url.raw = <<>> <=> ~KeepsRaw(line)
    BY <1>1
  <1>3. CASE ~KeepsRaw(line)
    <2>1. Form = [i \in 1 .. Len(line) |-> Decoded(line[i])]
      BY <1>1, <1>2, <1>3 DEF Form, PathUnescape
    <2>2. \A i \in DOMAIN line : line[i] \in Tokens /\ line[i] \notin {"%2F", "%78", "%tasks"}
      BY <1>1, <1>3 DEF KeepsRaw
    <2>3. Len(Form) = Len(line) /\ Form \in Seq(Chars) /\ Form # <<>>
      BY <1>1, <2>1, <2>2, TokensAgree
    <2> QED
      BY <1>1, <1>2, <1>3, <2>1, <2>2, <2>3, TokensAgree
  <1>4. CASE KeepsRaw(line)
    <2>1. Form = [i \in 1 .. Len(line) |-> Normalize(line[i])]
      BY <1>1, <1>2, <1>4 DEF Form, NormalizeEscapedPath
    <2>2. \A i \in DOMAIN line : line[i] \in Tokens
      BY <1>1
    <2>3. Len(Form) = Len(line) /\ Form \in Seq(Chars) /\ Form # <<>>
      BY <1>1, <2>1, <2>2, TokensAgree
    <2>4. ~Percent(Form) => \A i \in DOMAIN line :
             Normalize(line[i]) \notin {"%2F", "%25", "%78", "%tasks"}
      BY <1>1, <2>1 DEF Percent
    <2> QED
      BY <1>1, <1>2, <1>4, <2>1, <2>2, <2>3, <2>4, TokensAgree
  <1> QED
    BY <1>3, <1>4

(* The templates of api/openapi.yaml, read off what is matched.            *)
LEMMA TemplatesOfForm ==
    ASSUME Arrived
    PROVE  /\ IsTasks <=> Form = <<"tasks">>
           /\ IsTask <=> /\ Len(Form) >= 2 /\ Form[1] = "tasks" /\ Form[2] = "/"
                         /\ \A i \in 3 .. Len(Form) : Form[i] \notin Slashed
           /\ IsTasks => ~IsTask
PROOF
  <1>1. /\ Form = [i \in 1 .. Len(line) |-> Form[i]] /\ Len(Form) = Len(line)
        /\ Len(line) \in Nat \ {0} /\ DOMAIN line = 1 .. Len(line)
        /\ Form \in Seq(Chars)
        /\ \A i \in DOMAIN line : /\ Form[i] = "tasks" <=> Decoded(line[i]) = "tasks"
                                  /\ Form[i] = "/" <=> line[i] = "/"
                                  /\ Form[i] \in Slashed <=> line[i] \in Slashed
    BY FormFacts
  <1>2. IsTasks <=> Form = <<"tasks">>
    <2>1. Form = <<"tasks">> => Len(Form) = 1 /\ Form[1] = "tasks"
      OBVIOUS
    <2>2. Len(Form) = 1 /\ Form[1] = "tasks" => Form = <<"tasks">>
      BY <1>1
    <2> QED
      BY <1>1, <2>1, <2>2 DEF IsTasks
  <1>3. IsTask <=> /\ Len(Form) >= 2 /\ Form[1] = "tasks" /\ Form[2] = "/"
                   /\ \A i \in 3 .. Len(Form) : Form[i] \notin Slashed
    <2>1. \A i \in 3 .. Len(Form) : i \in DOMAIN line
      BY <1>1
    <2>2. Len(line) >= 2 => 1 \in DOMAIN line /\ 2 \in DOMAIN line
      BY <1>1
    <2>3. (\A i \in 3 .. Len(Form) : Form[i] \notin Slashed)
             <=> (\A i \in 3 .. Len(line) : line[i] \notin Slashed)
      BY <1>1, <2>1
    <2> QED
      BY <1>1, <2>2, <2>3 DEF IsTask
  <1>4. IsTasks => ~IsTask
    BY <1>1 DEF IsTasks, IsTask
  <1> QED
    BY <1>2, <1>3, <1>4

(* A request line arrives.                                                 *)
LEMMA RouterInit == Init => RouterInv
PROOF
  <1> SUFFICES ASSUME Init PROVE RouterInv
    OBVIOUS
  <1>1. PICK n \in 1 .. MaxTokens : line \in [1 .. n -> Tokens]
    BY TokensAssumption DEF Init
  <1>2. line \in Seq(Tokens) /\ line # <<>>
    BY <1>1, TokensAssumption
  <1> QED
    BY <1>2 DEF Init, RouterInv, Arrived, IdDecodedOnce

(* The mux, and the choice of the form.                                    *)
LEMMA StartStep ==
    ASSUME RouterInv, Mux \/ Start
    PROVE  RouterInv'
PROOF
  <1>1. UNCHANGED <<method, line, url, args>>
    BY DEF Mux, Start
  <1>2. Form' = Form /\ Arrived'
    BY <1>1 DEF Form, RouterInv, Arrived
  <1>3. CASE Mux
    BY <1>1, <1>2, <1>3 DEF Mux, RouterInv, IdDecodedOnce
  <1>4. CASE Start
    BY <1>1, <1>2, <1>4 DEF Start, RouterInv, IdDecodedOnce, Form, Percent
  <1> QED
    BY <1>3, <1>4

(* The prefix is followed by the end of the path, by a slash or by what no *)
(* template has.                                                           *)
LEMMA PrefixStep ==
    ASSUME RouterInv, Prefix
    PROVE  RouterInv'
PROOF
  <1>1. UNCHANGED <<method, line, url, args, escaped>> /\ at = "prefix" /\ elem = Form
    BY DEF Prefix, RouterInv
  <1>2. Form' = Form /\ Arrived' /\ Arrived /\ IsTask' = IsTask /\ IsTasks' = IsTasks
    BY <1>1 DEF Form, RouterInv, Arrived, IsTask, IsTasks
  <1>3. Percent(Form)' = Percent(Form)
    BY <1>2 DEF Percent
  <1>4. /\ Form # <<>> /\ Form \in Seq(Chars) /\ Len(Form) = Len(line)
        /\ Head(Form) = Form[1] /\ (Tail(Form) = <<>> <=> Len(line) = 1)
        /\ Form[1] = "tasks" <=> Decoded(line[1]) = "tasks"
        /\ Len(line) \in Nat \ {0}
    BY <1>2, FormFacts
  <1>5. CASE Form[1] = "tasks" /\ Len(line) = 1
    <2>1. at' = "createTask" /\ IsTasks
      BY <1>1, <1>4, <1>5 DEF Prefix, IsTasks
    <2> QED
      BY <1>1, <1>2, <1>3, <2>1 DEF RouterInv, IdDecodedOnce
  <1>6. CASE Form[1] = "tasks" /\ Len(line) # 1
    <2>1. at' = "slash" /\ elem' = Tail(Form) /\ Len(line) >= 2
      BY <1>1, <1>4, <1>6 DEF Prefix
    <2> QED
      BY <1>1, <1>2, <1>3, <1>4, <1>6, <2>1 DEF RouterInv, IdDecodedOnce
  <1>7. CASE Form[1] # "tasks"
    <2>1. at' = "notFound" /\ ~IsTasks /\ ~IsTask
      BY <1>1, <1>4, <1>7 DEF Prefix, IsTasks, IsTask
    <2> QED
      BY <1>1, <1>2, <2>1 DEF RouterInv, IdDecodedOnce
  <1> QED
    BY <1>5, <1>6, <1>7

(* The parameter is what follows the slash, if no other slash does.        *)
LEMMA LeafStep ==
    ASSUME RouterInv, Leaf
    PROVE  RouterInv'
PROOF
  <1>1. UNCHANGED <<method, line, url, escaped>> /\ at = "slash" /\ elem = Tail(Form)
        /\ Len(line) >= 2
    BY DEF Leaf, RouterInv
  <1>2. Form' = Form /\ Arrived' /\ Arrived /\ IsTask' = IsTask /\ IsTasks' = IsTasks
    BY <1>1 DEF Form, RouterInv, Arrived, IsTask, IsTasks
  <1>3. Percent(Form)' = Percent(Form)
    BY <1>2 DEF Percent
  <1>4. /\ Form # <<>> /\ Form \in Seq(Chars) /\ Len(Form) = Len(line)
        /\ Form[1] = "tasks" /\ Len(line) \in Nat
    <2>1. Decoded(line[1]) = "tasks"
      BY <1>1 DEF RouterInv
    <2> QED
      BY <1>1, <1>2, <2>1, FormFacts
  <1>5. /\ Head(elem) = Form[2] /\ Len(elem) = Len(Form) - 1
        /\ \A i \in 2 .. Len(elem) : elem[i] = Form[i + 1]
    BY <1>1, <1>4
  <1>6. (\A i \in 2 .. Len(elem) : elem[i] \notin Slashed)
           <=> (\A i \in 3 .. Len(Form) : Form[i] \notin Slashed)
    <2>1. ASSUME \A i \in 2 .. Len(elem) : elem[i] \notin Slashed, NEW i \in 3 .. Len(Form)
          PROVE  Form[i] \notin Slashed
      <3>1. i - 1 \in 2 .. Len(elem) /\ (i - 1) + 1 = i
        BY <1>4, <1>5
      <3> QED
        BY <1>5, <2>1, <3>1
    <2>2. ASSUME \A i \in 3 .. Len(Form) : Form[i] \notin Slashed, NEW i \in 2 .. Len(elem)
          PROVE  elem[i] \notin Slashed
      BY <1>4, <1>5, <2>2
    <2> QED
      BY <2>1, <2>2
  <1>7. (Head(elem) = "/" /\ \A i \in 2 .. Len(elem) : elem[i] \notin Slashed) <=> IsTask
    BY <1>1, <1>2, <1>4, <1>5, <1>6, TemplatesOfForm
  <1>8. CASE IsTask
    <2>1. at' = "getTask" /\ args' = Tail(Tail(Form))
      BY <1>1, <1>7, <1>8 DEF Leaf
    <2> QED
      BY <1>1, <1>2, <1>3, <1>8, <2>1 DEF RouterInv, IdDecodedOnce
  <1>9. CASE ~IsTask
    <2>1. at' = "notFound" /\ ~IsTasks
      BY <1>1, <1>4, <1>7, <1>9 DEF Leaf, IsTasks
    <2> QED
      BY <1>1, <1>2, <1>9, <2>1 DEF RouterInv, IdDecodedOnce
  <1> QED
    BY <1>8, <1>9

(* A template is served for its own method.                                *)
LEMMA MethodStep ==
    ASSUME RouterInv, Method
    PROVE  RouterInv'
PROOF
  <1>1. UNCHANGED <<method, line, url, elem, escaped, args>>
    BY DEF Method
  <1>2. Form' = Form /\ Arrived' /\ IsTask' = IsTask /\ IsTasks' = IsTasks
    BY <1>1 DEF Form, RouterInv, Arrived, IsTask, IsTasks
  <1>3. Percent(Form)' = Percent(Form)
    BY <1>2 DEF Percent
  <1> QED
    BY <1>1, <1>2, <1>3 DEF Method, RouterInv, IdDecodedOnce

(* What was matched and escaped is decoded, and only that.                 *)
LEMMA ParamsStep ==
    ASSUME RouterInv, Params
    PROVE  RouterInv'
PROOF
  <1>1. /\ UNCHANGED <<method, line, url, elem, escaped>> /\ at = "params"
        /\ at' = "handleGetTask" /\ args = Tail(Tail(Form)) /\ IsTask /\ Arrived
        /\ args' = IF escaped THEN PathUnescape(args) ELSE args
        /\ escaped <=> url.raw # <<>> /\ Percent(Form)
        /\ method = "GET"
    BY DEF Params, RouterInv
  <1>2. Arrived' /\ IsTask' = IsTask /\ IsTasks' = IsTasks
    BY <1>1 DEF Arrived, IsTask, IsTasks
  <1>3. Len(line) \in Nat /\ Len(line) >= 2
    BY <1>1, FormFacts DEF IsTask
  <1>4. args = [i \in 1 .. Len(line) - 2 |-> Form[i + 2]]
    <2>1. Form \in Seq(Chars) /\ Len(Form) = Len(line)
      BY <1>1, FormFacts
    <2> QED
      BY <1>1, <1>3, <2>1, TailTwice
  <1>5. ASSUME NEW i \in 1 .. Len(line) - 2
        PROVE  (IF escaped THEN Decoded(Form[i + 2]) ELSE Form[i + 2]) = Decoded(line[i + 2])
    <2>1. i + 2 \in DOMAIN line
      BY <1>1, <1>3, FormFacts
    <2> QED
      BY <1>1, <2>1, FormFacts
  <1>6. args' = [i \in 1 .. Len(line) - 2 |-> Decoded(line[i + 2])]
    BY <1>1, <1>4, <1>5 DEF PathUnescape
  <1> QED
    BY <1>1, <1>2, <1>6 DEF RouterInv, IdDecodedOnce

(* The router keeps its invariant.                                         *)
LEMMA RouterStep == RouterInv /\ [Next]_rvars => RouterInv'
PROOF
  <1> SUFFICES ASSUME RouterInv, UNCHANGED rvars PROVE RouterInv'
    BY StartStep, PrefixStep, LeafStep, MethodStep, ParamsStep DEF Next
  <1> QED
    BY DEF rvars, RouterInv, Arrived, Form, Percent, IsTask, IsTasks, IdDecodedOnce

---------------------------------------------------------------------------
(* The router keeps its invariant, for paths of any length.                *)
THEOREM RouterIsConsistent == Spec => []RouterInv
PROOF
  BY RouterInit, RouterStep, PTL DEF Spec

(* Where a request ends says which template its line has and whether the   *)
(* method is the template's.                                               *)
LEMMA EndTellsTemplate == RouterInv => OnlyTemplates
PROOF
  <1> SUFFICES ASSUME RouterInv, Ended, at \notin {"redirect", "metrics"}
               PROVE  OnlyTemplates
    BY DEF OnlyTemplates
  <1>1. ~(IsTasks /\ IsTask)
    BY TemplatesOfForm DEF RouterInv
  <1> QED
    BY <1>1 DEF RouterInv, Ended, OnlyTemplates

(* FindPath matches the same form of the path, all at once.                *)
LEMMA FindPathFinds ==
    ASSUME RouterInv
    PROVE  /\ IsTasks /\ method = "POST" =>
                 FindPath(method, url) = [op |-> "createTask", args |-> <<>>]
           /\ IsTask /\ method = "GET" =>
                 FindPath(method, url) =
                    [op   |-> "getTask",
                     args |-> [i \in 1 .. Len(line) - 2 |-> Decoded(line[i + 2])]]
           /\ ~(IsTasks /\ method = "POST") /\ ~(IsTask /\ method = "GET") =>
                 FindPath(method, url) = NoRoute
PROOF
  <1> DEFINE arg == SubSeq(Form, 3, Len(Form))
  <1>1. Arrived
    BY DEF RouterInv
  <1>2. /\ Form \in Seq(Chars) /\ Len(Form) = Len(line)
        /\ Len(line) \in Nat /\ DOMAIN line = 1 .. Len(line)
    BY <1>1, FormFacts
  <1>3. /\ arg = [i \in 1 .. Len(line) - 2 |-> Form[i + 2]]
        /\ DOMAIN arg = 1 .. Len(line) - 2
    BY <1>2
  <1>4. FindPath(method, url) =
          IF Form = <<"tasks">> /\ method = "POST" THEN [op |-> "createTask", args |-> <<>>]
          ELSE IF /\ Len(Form) >= 2 /\ Form[1] = "tasks" /\ Form[2] = "/"
                  /\ \A i \in DOMAIN arg : arg[i] \notin Slashed
                  /\ method = "GET"
          THEN [op |-> "getTask",
                args |-> IF url.raw = <<>> THEN arg ELSE PathUnescape(arg)]
          ELSE NoRoute
    BY DEF FindPath, Form
  <1> HIDE DEF arg
  <1>5. (\A i \in DOMAIN arg : arg[i] \notin Slashed)
           <=> (\A i \in 3 .. Len(Form) : Form[i] \notin Slashed)
    <2>1. ASSUME \A i \in DOMAIN arg : arg[i] \notin Slashed, NEW i \in 3 .. Len(Form)
          PROVE  Form[i] \notin Slashed
      <3>1. i - 2 \in DOMAIN arg /\ (i - 2) + 2 = i
        BY <1>2, <1>3
      <3> QED
        BY <1>3, <2>1, <3>1
    <2>2. ASSUME \A i \in 3 .. Len(Form) : Form[i] \notin Slashed, NEW i \in DOMAIN arg
          PROVE  arg[i] \notin Slashed
      BY <1>2, <1>3, <2>2
    <2> QED
      BY <2>1, <2>2
  <1>6. /\ IsTasks <=> Form = <<"tasks">>
        /\ IsTask <=> /\ Len(Form) >= 2 /\ Form[1] = "tasks" /\ Form[2] = "/"
                      /\ \A i \in DOMAIN arg : arg[i] \notin Slashed
        /\ IsTasks => ~IsTask
    BY <1>1, <1>5, TemplatesOfForm
  <1>7. (IF url.raw = <<>> THEN arg ELSE PathUnescape(arg))
           = [i \in 1 .. Len(line) - 2 |-> Decoded(line[i + 2])]
    <2>1. ASSUME NEW i \in 1 .. Len(line) - 2
          PROVE  /\ url.raw = <<>> => Form[i + 2] = Decoded(line[i + 2])
                 /\ url.raw # <<>> => Decoded(Form[i + 2]) = Decoded(line[i + 2])
      <3>1. i + 2 \in DOMAIN line
        BY <1>2
      <3> QED
        BY <1>1, <3>1, FormFacts
    <2> QED
      BY <1>3, <2>1 DEF PathUnescape
  <1> QED
    BY <1>4, <1>6, <1>7

(* The two operations are served for their templates and methods, and for  *)
(* nothing else, whatever was escaped on the way (ServeHTTP of             *)
(* oas_router_gen.go).                                                     *)
THEOREM TemplatesAreServed == Spec => []OnlyTemplates
PROOF
  BY RouterIsConsistent, EndTellsTemplate, PTL

(* The id a handler gets is the segment of the line, every escape undone   *)
(* once (decodeGetTaskParams).                                             *)
THEOREM IdIsDecodedOnce == Spec => []IdDecodedOnce
PROOF
  <1>1. RouterInv => IdDecodedOnce
    BY DEF RouterInv
  <1> QED
    BY <1>1, RouterIsConsistent, PTL

(* FindPath names the operation that ServeHTTP serves, with the same id.   *)
THEOREM RouterCopiesAgree == Spec => []CopiesAgree
PROOF
  <1>1. RouterInv => CopiesAgree
    <2> SUFFICES ASSUME RouterInv, Ended, at \notin {"redirect", "metrics"}
                 PROVE  CopiesAgree
      BY DEF CopiesAgree
    <2>1. OnlyTemplates /\ IdDecodedOnce
      BY EndTellsTemplate DEF RouterInv
    <2>2. CASE at = "handleCreateTask"
      BY <2>1, <2>2, FindPathFinds DEF OnlyTemplates, CopiesAgree
    <2>3. CASE at = "handleGetTask"
      BY <2>1, <2>3, FindPathFinds DEF OnlyTemplates, IdDecodedOnce, CopiesAgree
    <2>4. CASE at \notin {"handleCreateTask", "handleGetTask"}
      BY <2>1, <2>4, FindPathFinds DEF OnlyTemplates, CopiesAgree
    <2> QED
      BY <2>2, <2>3, <2>4
  <1> QED
    BY <1>1, RouterIsConsistent, PTL
=============================================================================
