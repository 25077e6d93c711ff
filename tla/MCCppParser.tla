---------------------------- MODULE MCCppParser ----------------------------
\* The pieces of C++ and Java texts of the runs of CppParser and JavaParser.
EXTENDS MCCParser, JavaParser

MCCppItems == {
  <<"word", "sym(", "(", "word", "sym", ")", ";">>,
  <<"word", "sym(", "(", "word", "sym", "=", "sym(", "(", ")", ")", "const", "throw", "(", "sym", ")", ";">>,
  <<"sym", "sym", ",", "sym", "=", "sym(", "(", ")", ";">>,
  <<"class", "sym", ";">>,
  <<"using", "namespace", "sym", ";">>,
  <<"using", "sym", ";">>,
  <<"template", "<", "word", "sym", ",", "sym", "<", "sym", ">", nl, ">", "word", "sym(", "(", "sym", ")", ";">>,
  <<"sym", "operator", "=", "(", "sym", "sym", ")", ";">>,
  <<"word", "operator", "(", ")", "{", "sym(", "(", ")", ";", "}">>,
  <<"word", "sym", "=", "{", "sym(", "(", ")", ",", "sym", "}", ";">>,
  <<"struct", "def{", "{", "word", "sym(", "(", ")", ";", "}", ";">>,
  <<"enum", "def{", "{", "def", "=", "sym(", "(", ")", ",", "def", "}", ";">>,
  <<"typedef", "const", "struct", "{", "word", "sym", ";", "}", "def", ";">>,
  <<"typedef", "sym", "word", "sym", "<", "sym", ">", "def", ";">> }

MCMembers == {
  <<"word">>,
  <<"ctor(", "(", ")", ";">>,
  <<"ctor(", "(", "sym", "sym", ")", nl, "sym(", "(", "sym", ")", "{", "}">>,
  <<"word", "word", "sym(", "(", ")", "=", ";">> }

MCHead(kind, tokens) == [kind |-> kind, tokens |-> tokens]
MCCppHeads == {
  MCHead("class", <<"class", "def{", "{">>),
  MCHead("class", <<"template", "<", "class", "sym", ">", nl, "class", "def", "word", "sym", ",", "sym", nl, "{">>),
  MCHead("body", <<"word", "def(", "(", "word", "sym", ")", "{">>),
  MCHead("body", <<"sym", "word", "def(", "(", "sym", "<", "sym", ">", ")", "const", "throw", "(", "sym", ")", nl, "{">>),
  MCHead("namespace", <<"namespace", "def", nl, "{">>),
  MCHead("namespace", <<"namespace", "{">>),
  MCHead("namespace", <<"extern", nl, "{">>),
  MCHead("block", <<"word", "(", "sym(", "(", ")", ")", "{">>),
  MCHead("block", <<"throw", "sym(", "(", "new", "sym", ")", ";", "{">>) }
MCMemberHeads == {
  MCHead("body", <<"ctor(", "(", ")", "{">>),
  MCHead("body", <<"word", "operator", "(", "sym", ")", "{">>) }

MCJavaItems == {
  <<"sym.", "sym", "sym", ";">>,
  <<"word", "sym", "=", "java new", "sym.", "sym(", "(", "sym(", "(", ")", ")", ";">>,
  <<"word", "sym", "=", "{", "sym.", "sym(", "(", ")", "}", ";">>,
  <<"sym", "sym", "=", "java new", "sym(", "(", ")", "{", "word", "sym(", "(", ")", "{", "sym", ";", "}",
    "word", "sym(", "(", ")", "{", "}", "}", ";">>,
  <<"word", "def(", "(", "word", "sym", ")", ";">>,
  <<"word", "def(", "(", ")", "throws", "sym", ",", "sym", ";">> }

MCJavaHeads == {
  MCHead("class", <<"java class", "def", "{">>),
  MCHead("class", <<"word", "java class", "def", "word", "sym", "word", "sym.", "sym", ",", "sym", "{">>),
  MCHead("class", <<"java class", "def", "{", "sym", ",", "sym", ";">>),
  MCHead("body", <<"word", "{">>),
  MCHead("body", <<"ctor(", "(", "word", "sym", ")", "{">>),
  MCHead("body", <<"sym.", "sym", "def(", "(", "sym.", "sym", "sym", ")", "throws", "sym.", "sym", "{">>) }

MCJavaStatements == {
  <<"sym.", "sym(", "(", "sym.", "word", ")", ";">>,
  <<"word", "sym", "=", "sym(", "(", ")", ";">>,
  <<"word", "java new", "sym(", "(", ")", "{", "word", "sym(", "(", ")", "{", "}", "}", ";">>,
  <<"word", "(", "sym", "java new", "sym", ")", "{", "sym(", "(", ")", ";", "}">> }
=============================================================================
