SPECIFICATION Spec
INVARIANT OutputIsVerifiable
