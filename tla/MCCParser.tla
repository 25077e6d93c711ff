----------------------------- MODULE MCCParser -----------------------------
\* The pieces of C and yacc texts of the run of CParser.
EXTENDS CParser

nl == "newline"

MCLines == {
  <<nl>>,
  <<"#include", nl>>,
  <<"#if", "sym", nl, "{", nl, "#if 0", "sym", nl, "{", nl, "#endif", nl, "}", nl, "#endif", nl>>,
  <<"#define", "def", nl>>,
  <<"#define", "def", "sym(", "(", "sym", ")", nl>>,
  <<"#define", "def", "word", "{", "sym", ";", nl>>,
  <<"#define", "def(", "(", "sym", ")", "}", "word", "(", ")", nl>> }

MCItems == {
  <<"sym", "sym", ",", "sym", ";">>,
  \* prototypes and calls of macros
  <<"word", "sym(", "(", "word", "sym", ")", ";">>,
  <<"sym", "sym(", "(", "sym(", "(", "sym", ")", ")", nl, "attribute", "(", "(", "sym", ")", ")", ";">>,
  <<"word", "sym(", "(", ")", ",", "sym(", "(", ")", ";">>,
  <<"word", "sym", "=", "sym(", "(", "sym", ")", ";">>,
  \* structs and enums
  <<"struct", "sym", "sym", ";">>,
  <<"struct", "attribute", "(", "(", "sym", ")", ")", "sym", "sym(", "(", ")", ";">>,
  <<"enum", "def{", "{", nl, "def", ",", "def", "=", "(", "sym", ")", ",", "def", "=", "sym", nl, "}", ";">>,
  <<"enum", "{", "#if", "sym", nl, "def", ",", nl, "#else", nl, "def", "=", "sym(", "(", "sym", ",", "sym", ")", ",", nl,
    "#endif", nl, "def", "}", "sym", ";">>,
  <<"enum", "sym", "sym(", "(", ")", ";">>,
  \* typedefs
  <<"typedef", "word", "def", ";">>,
  <<"typedef", "const", nl, "sym", "def", ",", "def", ";">>,
  <<"typedef", "struct", "sym", "def", ";">>,
  <<"typedef", "struct", "def{", "{", "sym", "sym", ";", "struct", "{", "word", "sym", ";", "}", "sym", ";", nl, "}",
    "def", ",", "def", ";">>,
  <<"typedef", "struct", "{", nl, "#if", "sym", nl, "struct", "{", nl, "#else", nl, "word", "{", nl, "#endif", nl,
    "word", "sym", ";", "}", ";", nl, "}", "def", ";">>,
  <<"typedef", "enum", "def{", "{", "def", ",", "def", "}", "def", ";">>,
  <<"typedef", "word", "def", nl, "#if", "sym", nl, ",", "def", nl, "#endif", nl, ";">> }

MCHeads == {
  <<"word", "def(", "(", "word", "sym", ")", "{">>,
  <<"def(", "(", "sym", ",", "sym", ")", nl, "word", "sym", ",", "sym", ";", "struct", "sym", "sym", ";", nl, "{">>,
  <<"word", "def(", "(", "word", "(", "sym", ")", "(", "word", ")", ")", "attribute", "(", "(", "sym", ")", ")", "{">>,
  <<"word", "def(", "(", nl, "#if", "sym", nl, "word", "sym", nl, "#else", nl, "sym", nl, "#endif", nl, ")", nl, "{">>,
  <<"#if", "sym", nl, "word", "def(", "(", "word", "sym", ")", nl, "#else", nl, "sym(", "(", "sym", ")", "word", "sym", ";",
    nl, "#endif", nl, "{">>,
  <<"struct", "def{", "{">>,
  <<"struct", "sym", "sym", "=", "{">>,
  <<"word", "sym", "=", "{">> }

MCStatements == {
  <<"sym(", "(", "sym", ",", "sym(", "(", ")", ")", ";">>,
  <<"word", "sym", "=", "sym", ";">>,
  <<"struct", "def{", "{", "word", "sym", ";", "}", "sym", ";">>,
  <<"enum", "def{", "{", "def", "}", "sym", ";">>,
  <<"typedef", "struct", "{", "sym", "sym", ";", "}", "def", ";">> }

MCBlocks == {
  <<"{">>,
  <<"word", "(", "sym(", "(", ")", ")", "{">> }

MCRules == {
  <<"sym", nl, "sym", "sym", nl>>,
  <<";">> }
=============================================================================
