SPECIFICATION Spec
CONSTANT OrdinaryLengths <- MCOrdinaryLengths
PROPERTIES MaskedIrqIgnored
