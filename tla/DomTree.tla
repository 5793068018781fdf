------------------------------ MODULE DomTree ------------------------------
(***************************************************************************)
(* DomUtils (src/src/xml/XmlDomUtils.cpp): how a document is built, what   *)
(* is found in it, and how it is written (XmlDomUtilsInternal.cpp).  The   *)
(* nodes are numbered in the order they are made; 0 is the document.  An   *)
(* element or an instruction has a name, any other node its text.          *)
(***************************************************************************)
EXTENDS Naturals, FiniteSets, Sequences, SequencesExt

CONSTANTS
  DomNames,    \* the names of elements and of instructions
  DomTexts,    \* the texts of nodes and of attributes
  AttrMaps,    \* mappings of attributes: functions to [type, text]
  MaxDomNodes  \* bound on the nodes of a document

ASSUME DomTreeAssumption ==
  /\ MaxDomNodes \in Nat
  /\ \A m \in AttrMaps : \A k \in DOMAIN m :
       m[k].type \in {"string", "long", "boolean", "mapping"} /\ m[k].text \in DomTexts

VARIABLES
  nodes,   \* [Nat -> [kind, name, data, attrs]]
  kids,    \* the children of each of them, in order
  wanted,  \* ghost: the value last set on an element, or NoText
  added    \* ghost: the instructions, in the order they were added

domVars == <<nodes, kids, wanted, added>>

NoText == "no text"
NoAttrs == [k \in {} |-> NoText]
Node(kind, name, data, attrs) ==
  [kind |-> kind, name |-> name, data |-> data, attrs |-> attrs]
Ids == DOMAIN nodes
Elements == {n \in Ids : nodes[n].kind = "element"}
OfKind(seq, kind) == SelectSeq(seq, LAMBDA c : nodes[c].kind = kind)
Texts(m) == [k \in DOMAIN m |-> m[k].text]

\* addAttributes: an element takes the values of three types, in the place of
\* those it had; the data of an instruction is the text of the whole mapping.
Settable(m) == {k \in DOMAIN m : m[k].type \in {"long", "string", "boolean"}}
AddAttributes(old, m) ==
  [k \in DOMAIN old \cup Settable(m) |-> IF k \in Settable(m) THEN m[k].text ELSE old[k]]

-----------------------------------------------------------------------------
(* What is found. *)

\* getTextNode: the first child that is a text, 0 when there is none.
TextNode(n) == LET texts == OfKind(kids[n], "text") IN IF texts = <<>> THEN 0 ELSE texts[1]

\* getNodeValue, with no mapping for the attributes.
NodeValue(n) == IF TextNode(n) = 0 THEN NoText ELSE nodes[TextNode(n)].data

\* What is under a node, in the order of the document.
Beneath(n) ==
  LET walk[m \in Ids] == <<m>> \o FlattenSeq([i \in DOMAIN kids[m] |-> walk[kids[m][i]]])
  IN Tail(walk[n])

\* getNodeList, and getElementsByTagName of the library.
NodeList(n, tag) ==
  SelectSeq(Beneath(n), LAMBDA m : nodes[m].kind = "element" /\ nodes[m].name = tag)

\* findNodesByAttribute, over a list of nodes: an attribute that is not there
\* has the empty text.
NodesByAttribute(list, key, text) ==
  SelectSeq(list, LAMBDA m : /\ nodes[m].kind = "element"
                             /\ key \in DOMAIN nodes[m].attrs
                             /\ nodes[m].attrs[key] = text)

\* findNodeByAttribute: the loop leaves at the first one.
NodeByAttribute(list, key, text) ==
  LET from[i \in 1..Len(list) + 1] ==
        IF i > Len(list) THEN 0
        ELSE IF NodesByAttribute(<<list[i]>>, key, text) # <<>> THEN list[i]
        ELSE from[i + 1]
  IN from[1]

\* findProcessingInstructions: among the children of the node only.
Instructions(n, target) ==
  SelectSeq(kids[n], LAMBDA m : nodes[m].kind = "pi" /\ nodes[m].name = target)

\* One turn of the loop of selectSingleNode: every name of the path is looked
\* for beneath the same element, and the first one missing ends it.
Root == OfKind(kids[0], "element")[1]

\* Mutant: the answer of an earlier name stays.
SegmentFailsKeeps(answer) == [answer EXCEPT !.done = TRUE]

SegmentFails(answer) == [answer EXCEPT !.found = FALSE, !.done = TRUE]
Segment(elem, answer, tag) ==
  LET list == NodeList(elem, tag)
  IN IF answer.done THEN answer
     ELSE IF list = <<>> THEN SegmentFails(answer)
     ELSE [answer EXCEPT !.found = TRUE, !.out = list[1]]

\* selectSingleNode: "//" at the front starts from the root of the document.
SelectSingleNode(n, path, absolute) ==
  FoldLeft(LAMBDA answer, tag : Segment(IF absolute THEN Root ELSE n, answer, tag),
           [found |-> FALSE, out |-> 0, done |-> FALSE], path)

-----------------------------------------------------------------------------
(* How a document is built. *)

\* createDocument, with the name of its root.
DomInit ==
  /\ nodes = [n \in 0..1 |-> IF n = 0 THEN Node("document", NoText, NoText, NoAttrs)
                             ELSE Node("element", CHOOSE t \in DomNames : TRUE, NoText, NoAttrs)]
  /\ kids = [n \in 0..1 |-> IF n = 0 THEN <<1>> ELSE <<>>]
  /\ wanted = [n \in 0..1 |-> NoText]
  /\ added = <<>>

NextNode == Cardinality(Ids)
Grow(f, new) == [n \in 0..NextNode + Len(new) - 1 |-> IF n < NextNode THEN f[n] ELSE new[n - NextNode + 1]]

\* createDomNode, and the appendChild of its caller (RpcDispatcher::dispatch).
CreateDomNode(parent, name, value, m) ==
  LET texts == IF value = NoText THEN <<>> ELSE <<Node("text", NoText, value, NoAttrs)>>
      new == <<Node("element", name, NoText, AddAttributes(NoAttrs, m))>> \o texts
  IN /\ NextNode + Len(new) <= MaxDomNodes
     /\ nodes' = Grow(nodes, new)
     /\ kids' = Grow([kids EXCEPT ![parent] = Append(@, NextNode)],
                     IF texts = <<>> THEN <<<<>>>> ELSE <<<<NextNode + 1>>, <<>>>>)
     /\ wanted' = Grow(wanted, IF texts = <<>> THEN <<NoText>> ELSE <<value, NoText>>)
     /\ UNCHANGED added

\* setNodeValue: the first text is changed, or one is made.
SetNodeValue(n, value, m) ==
  LET attributed == [nodes EXCEPT ![n].attrs = AddAttributes(@, m)]
  IN /\ IF TextNode(n) # 0
        THEN /\ nodes' = [attributed EXCEPT ![TextNode(n)].data = value]
             /\ wanted' = [wanted EXCEPT ![n] = value]
             /\ UNCHANGED kids
        ELSE /\ NextNode < MaxDomNodes
             /\ nodes' = Grow(attributed, <<Node("text", NoText, value, NoAttrs)>>)
             /\ kids' = Grow([kids EXCEPT ![n] = Append(@, NextNode)], <<<<>>>>)
             /\ wanted' = Grow([wanted EXCEPT ![n] = value], <<NoText>>)
     /\ UNCHANGED added

\* addProcessingInstruction: before the root, when there is one.
AddProcessingInstruction(target, m) ==
  LET roots == {i \in DOMAIN kids[0] : nodes[kids[0][i]].kind = "element"}
      at == IF roots = {} THEN Len(kids[0]) + 1 ELSE CHOOSE i \in roots : TRUE
  IN /\ NextNode < MaxDomNodes
     /\ nodes' = Grow(nodes, <<Node("pi", target, NoText, Texts(m))>>)
     /\ kids' = Grow([kids EXCEPT ![0] = InsertAt(@, at, NextNode)], <<<<>>>>)
     /\ wanted' = Grow(wanted, <<NoText>>)
     /\ added' = Append(added, [target |-> target, attrs |-> Texts(m)])

\* What a parser leaves under an element besides: comments, character data.
ParserLeaves(n, kind, data) ==
  /\ NextNode < MaxDomNodes
  /\ ~(kind = "text" /\ kids[n] # <<>> /\ nodes[Last(kids[n])].kind = "text")
  /\ nodes' = Grow(nodes, <<Node(kind, NoText, data, NoAttrs)>>)
  /\ kids' = Grow([kids EXCEPT ![n] = Append(@, NextNode)], <<<<>>>>)
  /\ wanted' = IF kind = "text" /\ TextNode(n) = 0
               THEN Grow([wanted EXCEPT ![n] = data], <<NoText>>) ELSE Grow(wanted, <<NoText>>)
  /\ UNCHANGED added

DomNext ==
  \/ \E n \in Elements, m \in AttrMaps :
       \/ \E name \in DomNames, value \in DomTexts \cup {NoText} :
            CreateDomNode(n, name, value, m)
       \/ \E value \in DomTexts : SetNodeValue(n, value, m)
  \/ \E target \in DomNames, m \in AttrMaps :
       /\ \A k \in DOMAIN m : m[k].type # "mapping"
       /\ AddProcessingInstruction(target, m)
  \/ \E n \in Elements, kind \in {"text", "comment", "cdata"}, data \in DomTexts :
       ParserLeaves(n, kind, data)

-----------------------------------------------------------------------------
(* How it is written (DomUtilsInternal::Dom2XMLString). *)

\* Characters of a text and of an attribute are escaped, those of any other
\* node are not.
Escape(data) == IF data = "<" THEN "&lt;" ELSE data
Unescape(data) == IF data = "&lt;" THEN "<" ELSE data
NoEscapes(data) == data

Token(tok, name, data, attrs) == [tok |-> tok, name |-> name, data |-> data, attrs |-> attrs]
ElementTokens(node, children, inside) ==
  LET attrs == [k \in DOMAIN node.attrs |-> Escape(node.attrs[k])]
  IN IF children = <<>> THEN <<Token("empty", node.name, NoText, attrs)>>
     ELSE <<Token("open", node.name, NoText, attrs)>> \o inside
          \o <<Token("close", node.name, NoText, NoAttrs)>>

Written ==
  LET of[n \in Ids] ==
        LET node == nodes[n]
            inside == FlattenSeq([i \in DOMAIN kids[n] |-> of[kids[n][i]]])
        IN CASE node.kind = "element" -> ElementTokens(node, kids[n], inside)
             [] node.kind = "text" -> <<Token("chars", NoText, Escape(node.data), NoAttrs)>>
             [] node.kind \in {"cdata", "comment"} ->
                  <<Token(node.kind, NoText, NoEscapes(node.data), NoAttrs)>>
             [] node.kind = "pi" -> <<Token("pi", node.name, NoText, node.attrs)>>
             [] node.kind = "document" ->
                  FlattenSeq([i \in DOMAIN kids[n] |->
                    of[kids[n][i]] \o (IF i = Len(kids[n]) THEN <<>>
                                       ELSE <<Token("chars", NoText, "CR", NoAttrs)>>)])
  IN of[0]

-----------------------------------------------------------------------------
(* What they must do. *)

\* The value set last on an element is the one that is read, whatever else was
\* put under the element in between (setNodeValue and getNodeValue agree on
\* which of its texts is the value).
ValueReadsBack == \A n \in Elements : NodeValue(n) = wanted[n]

\* The instructions that are found are those that were added for the target,
\* in the order they were added: RpcServer and RpcClient take the first one.
InstructionsInOrder ==
  \A target \in DomNames :
    [i \in DOMAIN Instructions(0, target) |-> nodes[Instructions(0, target)[i]].attrs]
      = LET ofTarget == SelectSeq(added, LAMBDA a : a.target = target)
        IN [i \in DOMAIN ofTarget |-> ofTarget[i].attrs]

\* A node that selectSingleNode says it found has the last name of the path
\* and is under the node the search began from, or under the root when the
\* path is absolute; findNodeByAttribute gives the first of
\* findNodesByAttribute, and no element that matches is left out.
SelectionsMatch ==
  \A n \in Elements :
    /\ \A path \in SeqOf(DomNames, 2) \ {<<>>}, absolute \in BOOLEAN :
         LET answer == SelectSingleNode(n, path, absolute)
         IN answer.found => /\ nodes[answer.out].name = Last(path)
                            /\ answer.out \in ToSet(Beneath(IF absolute THEN Root ELSE n))
    /\ \A key \in UNION {DOMAIN m : m \in AttrMaps}, text \in DomTexts :
         LET first == NodeByAttribute(Beneath(n), key, text)
             all == NodesByAttribute(Beneath(n), key, text)
         IN IF all = <<>> THEN first = 0 ELSE first = all[1]

\* What is written reads as the same document: a reader that keeps a stack of
\* open elements finds every node at its depth, in order, with its name, its
\* text and its attributes, and closes what it opened.
Depth == LET of[n \in Ids] == IF n = 0 THEN 0
                              ELSE 1 + of[CHOOSE p \in Ids : n \in ToSet(kids[p])]
         IN of
Described == [i \in DOMAIN Beneath(0) |->
               LET node == nodes[Beneath(0)[i]]
               IN <<Depth[Beneath(0)[i]], node.kind, node.name, node.data, node.attrs>>]
ReadToken(read, token) ==
  LET at == Len(read.open) + 1
      kind == IF token.tok \in {"open", "empty"} THEN "element"
              ELSE IF token.tok = "chars" THEN "text" ELSE token.tok
      text == IF token.tok = "chars" THEN Unescape(token.data) ELSE token.data
      item == <<at, kind, token.name, text,
                [k \in DOMAIN token.attrs |-> Unescape(token.attrs[k])]>>
      bad == token.tok = "chars" /\ token.data = "<"
  IN IF token.tok = "close"
     THEN IF read.open # <<>> /\ Last(read.open) = token.name
          THEN [read EXCEPT !.open = Front(@)] ELSE [read EXCEPT !.wrong = TRUE]
     ELSE IF at = 1 /\ token.tok = "chars" THEN read
     ELSE [open |-> IF token.tok = "open" THEN Append(read.open, token.name) ELSE read.open,
           items |-> Append(read.items, item), wrong |-> read.wrong \/ bad]
WrittenReadsBack ==
  FoldLeft(ReadToken, [open |-> <<>>, items |-> <<>>, wrong |-> FALSE], Written)
    = [open |-> <<>>, items |-> Described, wrong |-> FALSE]
============================================================================
