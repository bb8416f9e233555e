------------------------------ MODULE HermetoInput ------------------------------
(***************************************************************************)
(* How prefetch-dependencies rewrites what it hands to hermeto             *)
(* (pkg/commands/prefetch_dependencies/utils.go): the input, a JSON value, *)
(* in which every rpm package is given options, and the lines of the       *)
(* configuration file, from which the Go proxy is dropped.                 *)
(***************************************************************************)
EXTENDS Naturals, Sequences

(* A JSON value is a function from its places.  A place is the sequence of *)
(* steps to it from the root <<>>: i is the i-th item of a list, 0 the     *)
(* field "packages" of an object.  At each place there is a list, an       *)
(* object or anything else; of an object the fields that the code looks    *)
(* at.  "options" tells whether it is an object, whether it has fields     *)
(* besides "ssl", whether that is an object, and the names it sets.        *)
NoOptions == [given |-> FALSE, other |-> FALSE, hasSSL |-> FALSE, ssl |-> <<>>]
Node(kind, type, options) == [kind |-> kind, type |-> type, options |-> options, summary |-> FALSE]
Scalar == Node("scalar", "", NoOptions)
List == Node("list", "", NoOptions)
Object(type, options) == Node("object", type, options)

IsNode(n) == /\ n = [kind |-> n.kind, type |-> n.type, options |-> n.options, summary |-> n.summary]
             /\ n.options = [given |-> n.options.given, other |-> n.options.other,
                             hasSSL |-> n.options.hasSSL, ssl |-> n.options.ssl]

IsJson(v) ==
    /\ <<>> \in DOMAIN v
    /\ \A p \in DOMAIN v : /\ p \in Seq(Nat) /\ IsNode(v[p])
                           /\ \A k \in 1..Len(p) : SubSeq(p, 1, k) \in DOMAIN v

Only(node) == [p \in {<<>>} |-> node]

(* parseInput: what is not JSON is the type of the only package. *)
parseInput(raw) == IF raw.json THEN raw.value ELSE Only(Object(raw.word, NoOptions))

--------------------------------------------------------------------------------
(* The recursive walks: they go into the items of a list, and into the     *)
(* packages of an object if these are a list.                              *)
HasPackages(v, p) == /\ v[p].kind = "object"
                     /\ Append(p, 0) \in DOMAIN v /\ v[Append(p, 0)].kind = "list"

Visited(v, p) == \A k \in 1..Len(p) : p[k] = 0 => v[SubSeq(p, 1, k)].kind = "list"

containsRPM(v) == \E p \in DOMAIN v : Visited(v, p) /\ v[p].kind = "object" /\ v[p].type = "rpm"

(* An object without a list of packages is an rpm package if it says so. *)
IsRPM(v, p) == v[p].kind = "object" /\ ~HasPackages(v, p) /\ v[p].type = "rpm"

injectSummaryInSBOMField(v) ==
    [p \in DOMAIN v |-> IF Visited(v, p) /\ IsRPM(v, p) THEN [v[p] EXCEPT !.summary = TRUE] ELSE v[p]]

(* maps.Copy *)
Copy(new, old) == [k \in DOMAIN new \union DOMAIN old |-> IF k \in DOMAIN new THEN new[k] ELSE old[k]]

(* Into an "ssl" object that is there, else into new options. *)
WithSSL(options, ssl) ==
    IF options.given /\ options.hasSSL THEN [options EXCEPT !.ssl = Copy(ssl, options.ssl)]
    ELSE [given |-> TRUE, other |-> FALSE, hasSSL |-> TRUE, ssl |-> ssl]

injectSSLOptions(v, ssl) ==
    [p \in DOMAIN v |-> IF Visited(v, p) /\ IsRPM(v, p)
                        THEN [v[p] EXCEPT !.options = WithSSL(v[p].options, ssl)] ELSE v[p]]

(* The packages hermeto reads from its input. *)
Packages(v) == IF v[<<>>].kind = "list" THEN {p \in DOMAIN v : Len(p) = 1 /\ p[1] > 0}
               ELSE IF HasPackages(v, <<>>) THEN {p \in DOMAIN v : Len(p) = 2 /\ p[1] = 0 /\ p[2] > 0}
               ELSE {p \in {<<>>} : v[p].kind = "object"}

--------------------------------------------------------------------------------
(* A line of the configuration file: its key ("" for a line that is blank  *)
(* or a comment) and whether it is indented.                               *)
Line(key, indented) == [key |-> key, indented |-> indented]

(* Mutant of InGomodBlock: the gomod block never ends. *)
EverInGomodBlock(lines) ==
    LET in[n \in 0..Len(lines)] == IF n = 0 THEN FALSE ELSE in[n - 1] \/ lines[n].key = "gomod"
    IN  in

(* The variable inGomodBlock after the first n lines.  Any line that is    *)
(* not indented ends the block, a blank line and a comment too, but not    *)
(* one that is dropped.                                                    *)
InGomodBlock(lines) ==
    LET in[n \in 0..Len(lines)] ==
          IF n = 0 THEN FALSE
          ELSE IF lines[n].key = "gomod" THEN TRUE
          ELSE IF lines[n].key = "goproxy_url" \/ lines[n].indented THEN in[n - 1]
          ELSE FALSE
    IN  in

Dropped(lines, n) == \/ lines[n].key = "goproxy_url"
                     \/ lines[n].key = "proxy_url" /\ lines[n].indented /\ InGomodBlock(lines)[n - 1]

(* The lines at the positions of S, in order. *)
Kept(lines, S) ==
    LET kept[n \in 0..Len(lines)] ==
          IF n = 0 THEN <<>> ELSE IF n \in S THEN Append(kept[n - 1], lines[n]) ELSE kept[n - 1]
    IN  kept[Len(lines)]

dropGoProxyFrom(lines) == Kept(lines, {n \in 1..Len(lines) : ~Dropped(lines, n)})

--------------------------------------------------------------------------------
(* The same in YAML's own terms.                                           *)

(* Does line i belong to the mapping of the key in line h?  That is the    *)
(* last line before it that is not indented: blank lines and comments end  *)
(* nothing.                                                                *)
Heads(lines, h, i) ==
    /\ lines[i].indented /\ ~lines[h].indented
    /\ \A j \in (h + 1)..(i - 1) : lines[j].indented \/ lines[j].key = ""

(* An indented line belongs to a key that is no scalar's, and "gomod" is a *)
(* key of the top level.                                                   *)
WellFormed(lines) ==
    \A i \in 1..Len(lines) :
        /\ lines[i].key = "gomod" => ~lines[i].indented
        /\ lines[i].indented =>
              \E h \in 1..(i - 1) : Heads(lines, h, i) /\ lines[h].key \notin {"", "goproxy_url"}

SetsGoProxy(lines, i) ==
    \/ lines[i].key = "goproxy_url"
    \/ /\ lines[i].key = "proxy_url"
       /\ \E h \in 1..(i - 1) : Heads(lines, h, i) /\ lines[h].key = "gomod"

(* Does a blank line or a comment at the margin interrupt a block? *)
Interrupted(lines) == \E i \in 1..(Len(lines) - 1) : lines[i] = Line("", FALSE) /\ lines[i + 1].indented

(* The lines that set no Go proxy, in order. *)
WithoutGoProxy(lines) == Kept(lines, {n \in 1..Len(lines) : ~SetsGoProxy(lines, n)})
================================================================================
