---------------------------- MODULE WebBoilerplate ----------------------------
(***************************************************************************)
(* WebBoilerplateCleaner.clean: one pass over the blocks of a converted    *)
(* page that drops the site's chrome, then the headings left over nothing. *)
(*                                                                         *)
(* A block is what MarkdownBlock.parse measures of it: its kind, the level *)
(* of a heading and whether its title names chrome, the readable           *)
(* characters in and outside link labels, its number of links, whether     *)
(* most of them stay on the site, and a signature, equal for blocks the    *)
(* page repeats.  Characters are counted in units of 25.                   *)
(***************************************************************************)
EXTENDS Naturals, Sequences, FiniteSets, SequencesExt

CONSTANTS
  Block,      \* blocks a page may be made of
  MaxBlocks,  \* bound on the blocks of a page
  MinProse,   \* min_prose_chars
  MinIntro,   \* min_intro_chars
  MinLinks,   \* min_menu_links
  MaxMenu     \* max_menu_chars

Shape == [fenced: BOOLEAN, level: 0..6, chrome: BOOLEAN, prose: Nat, labels: Nat,
          links: Nat, local: BOOLEAN, signature: Nat]

CleanerAssumption ==
  /\ Block \subseteq Shape
  /\ MaxBlocks \in Nat \ {0} /\ 0 < MinIntro /\ MinIntro < MinProse
  /\ \A b \in Block : (b.chrome => b.level > 0) /\ (b.fenced => b.level = 0)

VARIABLES
  page,        \* the blocks, in the order of the page
  at,          \* index of the next block to read
  level,       \* chrome_level, 0 for None
  discarding,  \* since a chrome heading no block read like content
  kept,        \* indices kept
  done         \* the headings are pruned

vars == <<page, at, level, discarding, kept, done>>

TypeOK ==
  /\ Len(page) <= MaxBlocks /\ Range(page) \subseteq Block
  /\ at \in 1..(Len(page) + 1) /\ level \in 0..6 /\ discarding \in BOOLEAN
  /\ discarding => level > 0
  /\ \A n \in 1..Len(kept) : kept[n] < at /\ (n > 1 => kept[n - 1] < kept[n])
  /\ done \in BOOLEAN

Init ==
  /\ page \in SeqOf(Block, MaxBlocks) \ {<<>>}
  /\ at = 1 /\ level = 0 /\ discarding = FALSE /\ kept = <<>> /\ done = FALSE

-----------------------------------------------------------------------------
(* Blocks.                                                                 *)

Heading(b) == b.level > 0
Visible(b) == b.prose + b.labels

\* link_share >= link_density, 0.6; a block with nothing to read is all links.
MostlyLinks(b) == Visible(b) = 0 \/ b.labels * 5 >= Visible(b) * 3

\* Whether a section opened at the level is closed by this heading.
Outranks(b, l) == Heading(b) /\ b.level <= l

ContentLike(b) ==
  ~ Heading(b) /\ (b.fenced \/ (b.prose >= MinIntro /\ ~ MostlyLinks(b)))

\* A link block the page shows more than once.
Repeated(i) ==
  /\ page[i].links > 0 /\ ~ page[i].fenced
  /\ \E j \in 1..Len(page) : j # i /\ page[j].links > 0 /\ ~ page[j].fenced
                              /\ page[j].signature = page[i].signature

\* Outside the span from the first substantial paragraph to the last.
Body == {i \in 1..Len(page) : page[i].prose >= MinProse}
Outside(i) == Body # {} /\ ((\A j \in Body : i < j) \/ (\A j \in Body : j < i))

Chrome(i, sectioned) ==
  LET b == page[i] IN
  /\ ~ b.fenced /\ ~ Heading(b) /\ b.links > 0
  /\ b.prose < MinProse
  /\ \/ Visible(b) = 0 \/ Repeated(i)
     \/ /\ MostlyLinks(b) /\ b.local
        /\ Outside(i) \/ sectioned
        /\ b.links >= MinLinks \/ Visible(b) <= MaxMenu

-----------------------------------------------------------------------------
(* The pass.                                                               *)

Closes(b) == level > 0 /\ Outranks(b, level)

Discards(b) == discarding /\ ~ Closes(b) /\ ~ ContentLike(b)

\* One block: a heading may close the chrome section, a chrome heading opens
\* one, what follows is discarded until something reads like content.
Reads ==
  LET b == page[at]
      l == IF Closes(b) THEN 0 ELSE level
  IN
  /\ at <= Len(page)
  /\ at' = at + 1
  /\ IF b.chrome
     THEN level' = b.level /\ discarding' = TRUE /\ kept' = kept
     ELSE /\ level' = l /\ discarding' = Discards(b)
          /\ kept' = IF Discards(b) \/ Chrome(at, l > 0) THEN kept ELSE Append(kept, at)
  /\ UNCHANGED <<page, done>>

Prune(s) ==
  FoldRight(LAMBDA i, rest :
              IF Heading(page[i])
                 /\ (rest = <<>> \/ Outranks(page[rest[1]], page[i].level))
              THEN rest ELSE <<i>> \o rest,
            s, <<>>)

Prunes ==
  /\ at = Len(page) + 1 /\ ~ done
  /\ kept' = Prune(kept)
  /\ done' = TRUE
  /\ UNCHANGED <<page, at, level, discarding>>

Next == Reads \/ Prunes

Spec == Init /\ [][Next]_vars

-----------------------------------------------------------------------------
(* Properties.                                                             *)

Kept == Range(kept)
Lost == 1..Len(page) \ Kept

\* The nearest chrome heading before block i that no heading has closed yet.
Opens(h, i) == page[h].chrome /\ h < i /\ \A j \in (h + 1)..i : ~ Outranks(page[j], page[h].level)
Under(i) == {h \in 1..Len(page) : Opens(h, i) /\ \A j \in (h + 1)..(i - 1) : ~ page[j].chrome}

\* Said without the pass's running state: a block that is no heading is lost
\* only in the run right below a chrome heading where nothing reads like
\* content yet, or as a menu, and then never when it carries real prose.
OnlyChromeGoes ==
  done => \A i \in Lost : ~ Heading(page[i]) =>
    \/ \E h \in Under(i) : \A j \in (h + 1)..i : ~ ContentLike(page[j])
    \/ /\ page[i].links > 0 /\ page[i].prose < MinProse /\ ~ page[i].fenced
       /\ Visible(page[i]) = 0 \/ Repeated(i)
          \/ (MostlyLinks(page[i]) /\ page[i].local /\ (Outside(i) \/ Under(i) # {}))

\* No heading is left over a section whose blocks all went.
NoEmptySection ==
  done => \A n \in 1..Len(kept) : Heading(page[kept[n]]) =>
            n < Len(kept) /\ ~ Outranks(page[kept[n + 1]], page[kept[n]].level)

\* A link index, a page with no long paragraph and no chrome heading, loses
\* nothing but what it repeats and what nobody can read.
IndexSurvives ==
  done /\ Body = {} /\ (\A i \in 1..Len(page) : ~ page[i].chrome) =>
    \A i \in Lost : Heading(page[i]) \/ Visible(page[i]) = 0 \/ Repeated(i)
=============================================================================
