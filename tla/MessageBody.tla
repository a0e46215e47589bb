---------------------------- MODULE MessageBody -----------------------------
(***************************************************************************)
(* What parse_message (crates/teams-core/src/teams.rs) makes of a          *)
(* message's content: the text, the images and the message it replies to.  *)
(* Content is a sequence of symbols: tags, whole, and the symbols of the   *)
(* text, where "&" begins an entity and ";" ends it; the name of an entity *)
(* is one symbol.                                                          *)
(***************************************************************************)
EXTENDS Naturals, SequencesExt

CONSTANTS Replies,      \* opening blockquotes marked schema.skype.com/Reply
          SharedImages, \* <img> tags of AMS with an http address
          OtherTags,    \* all others: paragraphs, emoji images
          EntityLimit   \* 10 bytes in the code

ASSUME MessageBodyAssumption == EntityLimit \in Nat

Quotes == Replies \union {"<blockquote>"}
Tags == Quotes \union {"</blockquote>"} \union SharedImages \union OtherTags

\* contains('<')
HasTag(html) == ToSet(html) \intersect Tags # {}

\* strip_reply_quote: from an opening blockquote to the next closing one; the block
\* is dropped when a reply is marked in it, and the first such block whose opening
\* tag has an id says to which message.
StripReplyQuote(html) ==
  LET Next(i, set) == {p \in i..Len(html) : html[p] \in set}
      From[i \in Nat] ==
        LET open == Min(Next(i, Quotes))
            close == Min(Next(open, {"</blockquote>"}))
            block == SubSeq(html, open, close)
            reply == ToSet(block) \intersect Replies # {}
            rest == From[close + 1]
        IN IF Next(i, Quotes) = {} \/ Next(open, {"</blockquote>"}) = {}
           THEN [html |-> SubSeq(html, i, Len(html)), ids |-> <<>>]
           ELSE [html |-> SubSeq(html, i, open - 1) \o (IF reply THEN <<>> ELSE block) \o rest.html,
                 ids |-> (IF html[open] \in Replies THEN <<html[open]>> ELSE <<>>) \o rest.ids]
  IN From[1]

\* extract_images
ExtractImages(html) == SelectSeq(html, LAMBDA s : s \in SharedImages)

\* decode_entity
DecodeEntity(name) ==
  CASE name = <<"nbsp">> -> <<" ">>
    [] name = <<"amp">> -> <<"&">>
    [] name = <<"lt">> -> <<"<">>
    [] OTHER -> <<"&">> \o name \o <<";">>

\* The characters of html_to_text, before it joins its words: tags go, and from each
\* "&" up to a ";", a tag, another "&" or the limit is an entity.
Characters(html) ==
  LET From[i \in Nat] ==
        LET ends == {j \in (i + 1)..Len(html) : \/ html[j] \in Tags \union {";", "&"}
                                                \/ j - i - 1 > EntityLimit}
            end == Min(ends \union {Len(html) + 1})
            next == IF end \in ends /\ html[end] = ";" THEN end + 1 ELSE end
        IN IF i > Len(html) THEN <<>>
           ELSE CASE html[i] \in Tags -> From[i + 1]
                  [] html[i] = "&" -> DecodeEntity(SubSeq(html, i + 1, end - 1)) \o From[next]
                  [] OTHER -> <<html[i]>> \o From[i + 1]
  IN From[1]

\* split_whitespace, joined by one space.
JoinWords(text) ==
  LET kept == SelectSeq([i \in DOMAIN text |-> i], LAMBDA i :
                text[i] # " " \/ (i < Len(text) /\ text[i + 1] # " "
                                  /\ \E j \in 1..(i - 1) : text[j] # " "))
  IN [k \in DOMAIN kept |-> text[kept[k]]]

HtmlToText(html) == JoinWords(Characters(html))

FirstIfAny(seq) == IF seq = <<>> THEN <<>> ELSE <<seq[1]>>

\* A wrong ParseBody: the images of the quoted message are taken as well.
ParseBodyQuoted(raw) ==
  LET body == StripReplyQuote(raw)
  IN [text |-> HtmlToText(body.html), images |-> ExtractImages(raw), reply |-> FirstIfAny(body.ids)]

\* parse_message, what it does to the content; a message of images only is marked.
ParseBody(raw) ==
  LET body == StripReplyQuote(raw)
      text == IF HasTag(body.html) THEN HtmlToText(body.html) ELSE body.html
      images == ExtractImages(body.html)
  IN [text |-> IF text = <<>> /\ images # <<>> THEN <<"[image]">> ELSE text,
      images |-> images, reply |-> FirstIfAny(body.ids)]

-----------------------------------------------------------------------------
(* What Teams writes: pieces, each with its html and what of it is the     *)
(* message's own.                                                          *)

Piece(html, text, images, reply) ==
  [html |-> html, text |-> text, images |-> images, reply |-> reply]

Own(symbols) == Piece(symbols, symbols, <<>>, <<>>)
Entity(name, char) == Piece(<<"&", name, ";">>, <<char>>, <<>>, <<>>)
Tag(tag) == Piece(<<tag>>, <<>>, <<>>, <<>>)
Image(tag) == Piece(<<tag>>, <<>>, <<tag>>, <<>>)
Quote(inner) == Piece(<<"<blockquote>">> \o inner \o <<"</blockquote>">>, inner, <<>>, <<>>)
Reply(id, inner) == Piece(<<id>> \o inner \o <<"</blockquote>">>, <<>>, <<>>, <<id>>)

\* The reading of a whole message from its pieces.  Without a tag of its own the text
\* is kept as it stands.
Reading(pieces) ==
  LET Every(F(_)) == FlattenSeq([i \in DOMAIN pieces |-> F(pieces[i])])
      own == FlattenSeq([i \in DOMAIN pieces |->
                           IF pieces[i].reply = <<>> THEN pieces[i].html ELSE <<>>])
      text == IF HasTag(own) THEN JoinWords(Every(LAMBDA p : p.text)) ELSE own
      images == Every(LAMBDA p : p.images)
  IN [text |-> IF text = <<>> /\ images # <<>> THEN <<"[image]">> ELSE text,
      images |-> images, reply |-> FirstIfAny(Every(LAMBDA p : p.reply))]
=============================================================================
