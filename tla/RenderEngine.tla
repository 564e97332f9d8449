---------------------------- MODULE RenderEngine ----------------------------
(***************************************************************************)
(* The render engine of pkg/render/template.go: RenderAsBytes and its      *)
(* wrappers, the FuncMap assembly, the process-wide secretGetter, and the  *)
(* error behaviour of the template functions that can fail.                *)
(*                                                                         *)
(* A template is abstracted to the sequence of function calls it makes;    *)
(* literal text between calls carries nothing a property tells apart.      *)
(* text/template checks at parse time that every called name is in the    *)
(* FuncMap, and recovers a panic inside a called function into an          *)
(* execution error: both end the render with an error.  A value a call     *)
(* returns is appended to the output buffer.  Output values are tokens:    *)
(* the text an inline error prints is ErrText, any other text is Text,     *)
(* and an element drawn from a list is that element.                       *)
(***************************************************************************)
EXTENDS Integers, Sequences, SequencesExt

CONSTANTS
    Objects,      \* the elements templates pass to randEnum and weightObject
    Weights,      \* weights passed to weightObject
    MaxItems,     \* bound on the number of arguments of a variadic call
    Templates,    \* the templates rendered, as sequences of calls
    InitGetters,  \* secretGetter when the process starts to render
    ConcurrentSetter, \* SetSecretGetter may run on another goroutine
                      \* while a render runs (else only between renders)
    None          \* no template, no result

ASSUME MaxItems \in Nat /\ Weights \subseteq Int /\ ConcurrentSetter \in BOOLEAN

\* secretGetter: the zero interface value, the stub SetSecretGetter(nil)
\* installs, or a resolver that answers (and may fail) per call.
Unset  == "unset"
Stub   == "stub"
Server == "server"

VARIABLES
    getter,   \* the package variable secretGetter
    setting,  \* the getter a SetSecretGetter in progress is storing, or None
    tpl,      \* the calls of the template last parsed, or None
    pos,      \* index of the next call to execute
    buf,      \* the bytes.Buffer Execute writes to
    caller,   \* "bytes" (RenderAsBytes, Render, RenderAsReader) or "print"
    result,   \* what the caller got back: [data, err], or None
    sink      \* what RenderThenPrint wrote to its io.Writer

vars == <<getter, setting, tpl, pos, buf, caller, result, sink>>

Text    == "text"       \* any text a function produced normally
ErrText == "errText"    \* the message of an error, returned as the value
Empty   == "empty"      \* the empty string
EmptyWeightEnum == "&{0 <nil>}"   \* how &WeightEnum{} prints

ItemLists == UNION {[1..n -> Objects] : n \in 0..MaxItems}
WeightLists ==
    UNION {[1..n -> [weight: Weights, object: Objects]] : n \in 0..MaxItems}

\* The keys rasEncryptWithPublicKey can be given, by the first check they
\* fail: not PEM, PEM but not PKIX DER, a non-RSA key, a message too long
\* for the key; or a usable RSA key.
Keys == {"notPem", "notDer", "notRsa", "tooLong", "rsa"}

Call ==
         [fn: {"secretValue", "randomKubernetesName", "randAlpha", "unknownFn"}]
    \* list: the argument is a []string value from the data, rather than
    \* the string literals generateJSONObject writes ({{generateJSONString
    \* "a" "b"}})
    \cup [fn: {"generateJSONString"}, list: BOOLEAN]
    \cup [fn: {"base64Decode", "urlDecode"}, valid: BOOLEAN]
    \cup [fn: {"randEnum"}, items: ItemLists]
    \cup [fn: {"randEnumByJSON"}, valid: BOOLEAN, items: ItemLists]
    \cup [fn: {"randWeightEnum"}, items: WeightLists]
    \cup [fn: {"rasEncryptWithPublicKey"}, key: Keys]

ASSUME \A t \in Templates : t \in Seq(Call) /\ t # <<>>

(***************************************************************************)
(* FuncMap: sprig's functions, overlaid with every advancedFuncs entry     *)
(* that has a name (the randAlpha generator entry has none), and five      *)
(* direct registrations.  Of sprig only the names the generators write     *)
(* matter here.                                                            *)
(***************************************************************************)
SprigFuncs == {"randAlpha"}

AdvancedFuncNames ==
    <<"generateJSONString", "randomKubernetesName", "", "secretValue", "md5",
      "base64", "base64Decode", "sha256sumBytes", "randNorm", "randNormInt",
      "randLogNorm", "randLogNormInt", "randFloat", "randEnum",
      "randEnumByStr", "randEnumByJSON", "weightObject", "randWeightEnum",
      "randEmail", "uptimeDate", "uptime", "uptimeSeconds", "urlEncode",
      "urlDecode", "arange", "arangeIP">>

FuncMap ==
    SprigFuncs
    \cup {AdvancedFuncNames[i] : i \in {j \in DOMAIN AdvancedFuncNames :
                                           AdvancedFuncNames[j] # ""}}
    \cup {"rasEncryptWithPublicKey", "randImage", "randPdf", "randZip", "readFile"}

(***************************************************************************)
(* randWeightEnum's expansion: every item contributes Weight copies of its *)
(* Object, in order (the inner loop j < item.Weight never runs for a       *)
(* weight of 0 or less).                                                   *)
(***************************************************************************)
\* Mutant: the inner loop written j <= item.Weight.
ExpandInclusive(items) ==
    FoldLeft(LAMBDA acc, it : acc \o [j \in 1..(it.weight + 1) |-> it.object],
             <<>>, items)

Expand(items) ==
    FoldLeft(LAMBDA acc, it : acc \o [j \in 1..it.weight |-> it.object],
             <<>>, items)

\* randItem: items[rand.Intn(len(items))]; Intn panics when len is 0.
Draw(seq) == IF seq = <<>> THEN {[abort |-> TRUE]}
             ELSE {[abort |-> FALSE, val |-> seq[k]] : k \in DOMAIN seq}

Value(v) == {[abort |-> FALSE, val |-> v]}
Abort == {[abort |-> TRUE]}

(***************************************************************************)
(* The possible results of one call: a value, or an abort (a panic the     *)
(* template recovers, or a non-nil error result).                          *)
(***************************************************************************)
SecretOutcome(g) ==
    \* a method call on the nil interface panics
    IF g = Unset THEN Abort
    ELSE IF g = Stub THEN Value(ErrText)
    ELSE Value(Text) \cup Value(ErrText)

(* secretGetter is a two-word interface value.  A read racing its store    *)
(* (undefined behaviour) sees the old value, the new one, or the type word *)
(* of one with the data word of the other, whose method call faults or     *)
(* panics.                                                                 *)
SecretRead ==
    IF setting \in {None, getter} THEN SecretOutcome(getter)
    ELSE SecretOutcome(getter) \cup SecretOutcome(setting) \cup Abort

Outcome(c) ==
    CASE c.fn = "secretValue" -> SecretRead
      [] c.fn \in {"randomKubernetesName", "randAlpha"} -> Value(Text)
      \* generateJSONString takes one []string: text/template fails the call
      \* on string literals (wrong number or type of arguments)
      [] c.fn = "generateJSONString" -> IF c.list THEN Value(Text) ELSE Abort
      [] c.fn = "base64Decode" -> Value(IF c.valid THEN Text ELSE ErrText)
      [] c.fn = "urlDecode"    -> Value(IF c.valid THEN Text ELSE Empty)
      [] c.fn = "randEnum"     -> Draw(c.items)
      [] c.fn = "randEnumByJSON" ->
            IF c.valid THEN Draw(c.items) ELSE Value(EmptyWeightEnum)
      [] c.fn = "randWeightEnum" -> Draw(Expand(c.items))
      [] c.fn = "rasEncryptWithPublicKey" ->
            IF c.key = "rsa" THEN Value(Text) ELSE Abort
      [] OTHER -> Abort

-----------------------------------------------------------------------------
(***************************************************************************)
(* A render is running while tpl # None and result = None.  What the       *)
(* caller got back is [data, err]: err is "parse", "exec" (Execute         *)
(* failed), "write" (Fprint failed) or None.  RenderThenPrint hands no     *)
(* data back, only its error.                                              *)
(***************************************************************************)
Running == tpl # None /\ result = None

Init ==
    /\ getter \in InitGetters
    /\ setting = None
    /\ tpl = None
    /\ pos = 1
    /\ buf = <<>>
    /\ caller = "bytes"
    /\ result = None
    /\ sink = <<>>

(* SetSecretGetter: a nil getter installs the always-failing stub.  The     *)
(* plain store secretGetter = getter is not atomic: it starts here and     *)
(* completes in StoreGetter.  Unless ConcurrentSetter, it is called only   *)
(* while no render runs, as spec.md section 5 asks of its callers.         *)
SetSecretGetter(g) ==
    /\ setting = None
    /\ ConcurrentSetter \/ ~Running
    /\ setting' = IF g = None THEN Stub ELSE Server
    /\ UNCHANGED <<getter, tpl, pos, buf, caller, result, sink>>

StoreGetter ==
    /\ setting # None
    /\ getter' = setting
    /\ setting' = None
    /\ UNCHANGED <<tpl, pos, buf, caller, result, sink>>

(* template.New(name).Funcs(FuncMap()).Parse(text): a name missing from    *)
(* the FuncMap is a parse error and nothing is executed.                   *)
StartRender(t, how) ==
    /\ ~Running
    /\ ConcurrentSetter \/ setting = None
    /\ tpl' = t
    /\ caller' = how
    /\ sink' = <<>>
    /\ buf' = <<>>
    /\ pos' = 1
    /\ result' = IF \A k \in DOMAIN t : t[k].fn \in FuncMap THEN None
                 ELSE [data |-> None, err |-> "parse"]
    /\ UNCHANGED <<getter, setting>>

(* tpl.Execute runs the next call.  An abort ends Execute with an error;   *)
(* RenderAsBytes assigns data only when err is nil, and RenderThenPrint    *)
(* prints only when Render succeeded.                                      *)
ExecCall ==
    /\ Running
    /\ pos <= Len(tpl)
    /\ \E o \in Outcome(tpl[pos]) :
          IF o.abort
          THEN /\ result' = [data |-> None, err |-> "exec"]
               /\ UNCHANGED <<pos, buf>>
          ELSE /\ buf' = Append(buf, o.val)
               /\ pos' = pos + 1
               /\ UNCHANGED result
    /\ UNCHANGED <<getter, setting, tpl, caller, sink>>

(* Execute returns nil: data = buf.Bytes().  RenderThenPrint then prints   *)
(* the text with fmt.Fprint, which may fail on the writer.                 *)
FinishRender ==
    /\ Running
    /\ pos > Len(tpl)
    /\ \/ /\ caller = "bytes"
          /\ result' = [data |-> buf, err |-> None]
          /\ UNCHANGED sink
       \/ /\ caller = "print"
          /\ sink' = buf
          /\ result' \in {[data |-> None, err |-> e] : e \in {None, "write"}}
    /\ UNCHANGED <<getter, setting, tpl, pos, buf, caller>>

Next ==
    \/ \E g \in {None, Server} : SetSecretGetter(g)
    \/ StoreGetter
    \/ \E t \in Templates, how \in {"bytes", "print"} : StartRender(t, how)
    \/ ExecCall
    \/ FinishRender

Spec == Init /\ [][Next]_vars

-----------------------------------------------------------------------------
(***************************************************************************)
(* The contract of spec.md sections 4.1, 4.3, 6 and 7, written from the    *)
(* spec: the names a template may call, and the calls whose contract is    *)
(* to abort (or is undefined) rather than to return a value.               *)
(***************************************************************************)
DocumentedFuncs ==
    {"md5", "base64", "base64Decode", "sha256sumBytes", "randNorm",
     "randNormInt", "randLogNorm", "randLogNormInt", "randFloat", "randEnum",
     "randEnumByStr", "randEnumByJSON", "weightObject", "randWeightEnum",
     "randEmail", "uptime", "uptimeSeconds", "uptimeDate", "urlEncode",
     "urlDecode", "arange", "arangeIP", "secretValue",
     "rasEncryptWithPublicKey", "randImage", "randPdf", "randZip", "readFile"}
    \cup {"generateJSONString", "randomKubernetesName", "randAlpha"}
    \* the last three are what the GoDog generators write into templates

\* Each item contributes max(weight, 0) copies of its object.
WeightBag(items) ==
    FoldLeft(LAMBDA B, it : IF it.weight > 0 THEN B (+) (it.object :> it.weight)
                            ELSE B,
             EmptyBag, items)

\* Section 7 counts a call with arguments the function cannot take among
\* the aborts ("execution against a context that a function cannot
\* satisfy").
MayAbort(c) ==
    \/ c.fn = "generateJSONString" /\ ~c.list
    \/ c.fn = "rasEncryptWithPublicKey" /\ c.key # "rsa"
    \/ c.fn = "randEnum" /\ c.items = <<>>
    \/ c.fn = "randEnumByJSON" /\ c.valid /\ c.items = <<>>
    \/ c.fn = "randWeightEnum" /\ WeightBag(c.items) = EmptyBag

WeightedExpansion ==
    tpl # None =>
        \A k \in DOMAIN tpl :
            tpl[k].fn = "randWeightEnum" =>
                ToBag(Expand(tpl[k].items)) = WeightBag(tpl[k].items)
=============================================================================
