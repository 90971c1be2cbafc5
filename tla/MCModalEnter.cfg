CONSTANT MaxCalls <- MCMaxCalls
SPECIFICATION Spec
PROPERTY NoSubmitWhileDisabled
